---- MODULE Spec2Model ----
(***************************************************************************)
(* A model of python-ipfix: the type codec (ipfix/types.py), templates and *)
(* packing plans (ipfix/template.py) and the message buffer                *)
(* (ipfix/message.py).  Buffers are byte arrays, indexed from 0 like the   *)
(* memoryview they model; every struct pack/unpack is done byte by byte.   *)
(* A Python call is an operator from the object's state to a record        *)
(* [exc, ...]: exc = "" is a normal return, otherwise the name of the      *)
(* exception that leaves the call, and the state carried in the record is  *)
(* the state the object is left in at that point.                          *)
(***************************************************************************)
EXTENDS Integers, Sequences, FiniteSets, TLC

VARIABLES
    msg,    \* the MessageBuffer the caller exports with and reads into
    wire,   \* the bytes the last successful to_bytes returned
    last,   \* the last call on msg: its name, the exception it raised ("" if none)
    hist,   \* what the caller has done so far (history, not program state)
    fresh,  \* what a new MessageBuffer last read from wire
    it,     \* what the last iteration over msg yielded
    cx,     \* the codec under test: a template, a record and the last call's result
    _ieForName, \* the registry of ie.py: the IE registered under each name
    _ieForNum   \* and under each (pen, num)

msgvars == <<msg, wire, last, hist, fresh, it>>

infomodel == <<_ieForName, _ieForNum>>

vars == <<msg, wire, last, hist, fresh, it, cx, _ieForName, _ieForNum>>

\* Python's None, for attributes that otherwise hold a number.
None == -1

\* Python truthiness of a number-or-None: `not x` is true for None and 0.
Falsy(x) == x = None \/ x = 0

(***************************************************************************)
(* Bytes and struct packing                                                *)
(***************************************************************************)

\* struct "!H"
U16(v) == <<v \div 256, v % 256>>

\* struct "!L"
U32(v) == <<v \div 16777216, (v \div 65536) % 256, (v \div 256) % 256, v % 256>>

BufLen(buf) == Cardinality(DOMAIN buf)

\* n bytes starting at off lie inside the buffer (else struct.error)
Fits(buf, off, n) == off >= 0 /\ off + n <= BufLen(buf)

Get8(buf, off) == buf[off]

Get16(buf, off) == buf[off] * 256 + buf[off + 1]

Get32(buf, off) ==
    ((buf[off] * 256 + buf[off + 1]) * 256 + buf[off + 2]) * 256 + buf[off + 3]

\* buf[off:off+len(bs)] = bs, for a slice inside the buffer
Put(buf, off, bs) ==
    [i \in DOMAIN buf |->
        IF i >= off /\ i < off + Len(bs) THEN bs[i - off + 1] ELSE buf[i]]

Min(a, b) == IF a < b THEN a ELSE b

\* buf[a:b].tobytes(): a slice is clamped to the buffer
Slice(buf, a, b) ==
    LET e == Min(b, BufLen(buf))
    IN  IF a >= e THEN <<>> ELSE [i \in 1..(e - a) |-> buf[a + i - 1]]

Zeros(n) == [i \in 1..n |-> 0]

\* a dict, its assignment d[k] = v and del d[k]
EmptyDict == [k \in {} |-> 0]

DictSet(d, k, v) == [x \in DOMAIN d \cup {k} |-> IF x = k THEN v ELSE d[x]]

DictDel(d, k) == [x \in DOMAIN d \ {k} |-> d[x]]

(***************************************************************************)
(* ipfix/types.py                                                          *)
(***************************************************************************)

VARLEN == 65535

\* An OctetArrayType has no stel attribute: stel = "" stands for its absence.
OctetArrayType(name, num) ==
    [name |-> name, num |-> num, stel |-> "", length |-> VARLEN]

\* stel "s" with length n is the struct element "<n>s".
StructType(name, num, stel, length) ==
    [name |-> name, num |-> num, stel |-> stel, length |-> length]

T_octetArray == OctetArrayType("octetArray", 0)

T_unsigned8 == StructType("unsigned8", 1, "B", 1)

T_unsigned16 == StructType("unsigned16", 2, "H", 2)

T_unsigned32 == StructType("unsigned32", 3, "L", 4)

T_string == OctetArrayType("string", 13)

T_dateTimeSeconds == StructType("dateTimeSeconds", 14, "L", 4)

T_unsigned64 == StructType("unsigned64", 4, "Q", 8)

\* _Types, the builtin type registry
_Types ==
    {T_octetArray, T_unsigned8, T_unsigned16, T_unsigned32, T_unsigned64,
     StructType("signed8", 5, "b", 1), StructType("signed16", 6, "h", 2),
     StructType("signed32", 7, "l", 4), StructType("signed64", 8, "q", 8),
     StructType("float32", 9, "f", 4), StructType("float64", 10, "d", 8),
     StructType("boolean", 11, "B", 1), StructType("macAddress", 12, "s", 6),
     T_string, T_dateTimeSeconds,
     StructType("dateTimeMilliseconds", 15, "Q", 8),
     StructType("dateTimeMicroseconds", 16, "Q", 8),
     StructType("dateTimeNanoseconds", 17, "Q", 8),
     StructType("ipv4Address", 18, "s", 4), StructType("ipv6Address", 19, "s", 16)}

\* types.for_name: [exc, type]
for_name(name) ==
    IF \E t \in _Types : t.name = name
    THEN [exc |-> "", type |-> CHOOSE t \in _Types : t.name = name]
    ELSE [exc |-> "IpfixTypeError", type |-> T_octetArray]

IsOctetArrayType(t) == t.stel = ""

\* _stel_rle; "" stands for a KeyError
StelRle(stel, length) ==
    CASE stel = "H" /\ length = 1 -> "B"
      [] stel = "L" /\ length = 2 -> "H"
      [] stel = "L" /\ length = 1 -> "B"
      [] stel = "Q" /\ length = 4 -> "L"
      [] stel = "Q" /\ length = 2 -> "H"
      [] stel = "Q" /\ length = 1 -> "B"
      [] stel = "h" /\ length = 1 -> "b"
      [] stel = "l" /\ length = 2 -> "h"
      [] stel = "l" /\ length = 1 -> "b"
      [] stel = "q" /\ length = 4 -> "l"
      [] stel = "q" /\ length = 2 -> "h"
      [] stel = "q" /\ length = 1 -> "b"
      [] stel = "d" /\ length = 4 -> "f"
      [] OTHER -> ""

\* StructType.for_length / OctetArrayType.for_length: [exc, type]
TypeForLength(t, length) ==
    IF length = 0 \/ length = t.length THEN [exc |-> "", type |-> t]
    ELSE IF IsOctetArrayType(t)
         THEN [exc |-> "", type |-> StructType(t.name, t.num, "s", length)]
    ELSE IF StelRle(t.stel, length) # ""
         THEN [exc |-> "",
               type |-> StructType(t.name, t.num, StelRle(t.stel, length), length)]
    ELSE [exc |-> "IpfixTypeError", type |-> t]

\* str.encode(): UTF-8, for code points below 2048
EncodeUtf8CodePoint(cp) ==
    IF cp < 128 THEN <<cp>> ELSE <<192 + (cp \div 64), 128 + (cp % 64)>>

RECURSIVE _encode_utf8(_)
_encode_utf8(str) ==
    IF str = <<>> THEN <<>>
    ELSE EncodeUtf8CodePoint(Head(str)) \o _encode_utf8(Tail(str))

\* bytes.decode(): [exc, val]; "UnicodeDecodeError" on a malformed sequence.
\* Two-byte sequences with a lead byte of 0xC0 or 0xC1 are overlong and
\* lead bytes from 0xE0 on start sequences no code point of the model needs.
RECURSIVE _decode_utf8(_)
_decode_utf8(octets) ==
    IF octets = <<>> THEN [exc |-> "", val |-> <<>>]
    ELSE IF octets[1] < 128
         THEN LET Rest(r) == [exc |-> r.exc, val |-> <<octets[1]>> \o r.val]
              IN  Rest(_decode_utf8(Tail(octets)))
    ELSE IF octets[1] >= 194 /\ octets[1] < 224 /\ Len(octets) >= 2
            /\ octets[2] >= 128 /\ octets[2] < 192
         THEN LET Rest(r) ==
                      [exc |-> r.exc,
                       val |-> <<(octets[1] - 192) * 64 + (octets[2] - 128)>> \o r.val]
              IN  Rest(_decode_utf8(Tail(Tail(octets))))
    ELSE [exc |-> "UnicodeDecodeError", val |-> <<>>]

\* Python values carry their class: an int n is PyInt(n), a str is PyStr of its
\* code points, a bytes is PyBytes of its octets, a datetime is DateTime of
\* whole seconds since the epoch and microseconds.  What struct packs and
\* unpacks (a number, or a sequence of octets) is bare.
PyInt(n) == [k |-> "int", d |-> <<n>>]

PyStr(cps) == [k |-> "str", d |-> cps]

PyBytes(octets) == [k |-> "bytes", d |-> octets]

DateTime(sec, usec) == [k |-> "datetime", d |-> <<sec, usec>>]

\* not the code: a dateTimeSeconds rounded to the nearest second
_encode_sec_rounded(dt) == IF dt.d[2] >= 500000 THEN dt.d[1] + 1 ELSE dt.d[1]

\* int(dt.timestamp()); the process runs in UTC, so that timestamp() and
\* utcfromtimestamp() agree
_encode_sec(dt) == dt.d[1]

\* datetime.utcfromtimestamp(epoch)
_decode_sec(epoch) == DateTime(epoch, 0)

\* t.valenc(v): the bare value handed to struct or copied into the buffer
ValEnc(t, v) ==
    CASE t.name = "string" -> _encode_utf8(v.d)
      [] t.name = "dateTimeSeconds" -> _encode_sec(v)
      [] t.name = "octetArray" -> v.d
      [] OTHER -> v.d[1]

\* t.valdec(x): [exc, val]
ValDec(t, x) ==
    CASE t.name = "string" ->
            LET Str(r) == [exc |-> r.exc, val |-> PyStr(r.val)]
            IN  Str(_decode_utf8(x))
      [] t.name = "dateTimeSeconds" -> [exc |-> "", val |-> _decode_sec(x)]
      [] t.name = "octetArray" -> [exc |-> "", val |-> PyBytes(x)]
      [] OTHER -> [exc |-> "", val |-> PyInt(x)]

\* not the code: a struct that packs any number
StelAcceptsAny(stel, x) == TRUE

\* struct refuses a value outside the element's range (struct.error); the
\* bound of "L", 2^32 - 1, is written as a bound on the upper half
StelAccepts(stel, x) ==
    CASE stel = "B" -> x >= 0 /\ x <= 255
      [] stel = "H" -> x >= 0 /\ x <= 65535
      [] stel = "L" -> x >= 0 /\ (x \div 65536) <= 65535
      [] OTHER -> TRUE

\* the bytes struct packs for one element; "<n>s" pads with zeros or cuts
StelPack(stel, length, x) ==
    CASE stel = "B" -> <<x>>
      [] stel = "H" -> U16(x)
      [] stel = "L" -> U32(x)
      [] OTHER -> [i \in 1..length |-> IF i <= Len(x) THEN x[i] ELSE 0]

StelUnpack(stel, length, buf, off) ==
    CASE stel = "B" -> Get8(buf, off)
      [] stel = "H" -> Get16(buf, off)
      [] stel = "L" -> Get32(buf, off)
      [] OTHER -> Slice(buf, off, off + length)

\* decode_varlen: [exc, length, offset]
decode_varlen(buf, offset) ==
    IF ~Fits(buf, offset, 1)
    THEN [exc |-> "struct.error", length |-> 0, offset |-> offset]
    ELSE IF Get8(buf, offset) = 255
         THEN IF ~Fits(buf, offset + 1, 2)
              THEN [exc |-> "struct.error", length |-> 0, offset |-> offset]
              ELSE [exc |-> "", length |-> Get16(buf, offset + 1),
                    offset |-> offset + 3]
    ELSE [exc |-> "", length |-> Get8(buf, offset), offset |-> offset + 1]

\* not the code: an encoder that keeps 255 in one byte
encode_varlen_short(buf, offset, length) ==
    IF length > 255 /\ length <= 65535 /\ Fits(buf, offset, 3)
    THEN [exc |-> "", buf |-> Put(buf, offset, <<255>> \o U16(length)),
          offset |-> offset + 3]
    ELSE IF length <= 255 /\ Fits(buf, offset, 1)
    THEN [exc |-> "", buf |-> Put(buf, offset, <<length>>), offset |-> offset + 1]
    ELSE [exc |-> "struct.error", buf |-> buf, offset |-> offset]

\* encode_varlen: [exc, buf, offset]
encode_varlen(buf, offset, length) ==
    IF length >= 255
    THEN IF ~Fits(buf, offset, 1)
         THEN [exc |-> "struct.error", buf |-> buf, offset |-> offset]
         ELSE IF ~Fits(buf, offset + 1, 2) \/ length > 65535
              THEN [exc |-> "struct.error", buf |-> Put(buf, offset, <<255>>),
                    offset |-> offset]
         ELSE [exc |-> "", buf |-> Put(buf, offset, <<255>> \o U16(length)),
               offset |-> offset + 3]
    ELSE IF ~Fits(buf, offset, 1)
         THEN [exc |-> "struct.error", buf |-> buf, offset |-> offset]
    ELSE [exc |-> "", buf |-> Put(buf, offset, <<length>>), offset |-> offset + 1]

\* StructType/OctetArrayType.encode_single_value_to: [exc, buf, offset]
encode_single_value_to(t, val, buf, offset) ==
    LET Write(enc) ==
            IF IsOctetArrayType(t)
            THEN IF Fits(buf, offset, Len(enc))
                 THEN [exc |-> "", buf |-> Put(buf, offset, enc),
                       offset |-> offset + Len(enc)]
                 ELSE [exc |-> "ValueError", buf |-> buf, offset |-> offset]
            ELSE IF StelAccepts(t.stel, enc) /\ Fits(buf, offset, t.length)
                 THEN [exc |-> "",
                       buf |-> Put(buf, offset, StelPack(t.stel, t.length, enc)),
                       offset |-> offset + t.length]
                 ELSE [exc |-> "struct.error", buf |-> buf, offset |-> offset]
    IN  Write(ValEnc(t, val))

\* StructType/OctetArrayType.decode_single_value_from: [exc, val]
decode_single_value_from(t, buf, offset, length) ==
    IF IsOctetArrayType(t)
    THEN ValDec(t, Slice(buf, offset, offset + length))
    ELSE IF t.length # length THEN [exc |-> "AssertionError", val |-> PyInt(0)]
    ELSE IF ~Fits(buf, offset, t.length) THEN [exc |-> "struct.error", val |-> PyInt(0)]
    ELSE ValDec(t, StelUnpack(t.stel, t.length, buf, offset))

(***************************************************************************)
(* ipfix/ie.py                                                             *)
(***************************************************************************)

\* A name is <<text, pen, num>>: a registered name is <<text, 0, 0>>, and
\* <<"_ipfix", pen, num>> is the synthesized name "_ipfix_<pen>_<num>".
Name(text) == <<text, 0, 0>>

\* name = None
NoName == Name("")

\* InformationElement.__init__: [exc, ie]
InformationElement(name, pen, num, ietype, length) ==
    LET Made(len, ft) ==
            [exc |-> ft.exc,
             ie |-> [name |-> IF name # NoName THEN name ELSE <<"_ipfix", pen, num>>,
                     pen |-> pen, num |-> num, type |-> ft.type, length |-> len]]
        Sized(len) == Made(len, TypeForLength(ietype, len))
    IN  Sized(IF length # 0 THEN length ELSE ietype.length)

\* InformationElement.__eq__
IEEq(a, b) == a.pen = b.pen /\ a.num = b.num

\* InformationElement.for_length: [exc, ie]
IEForLength(ie, length) ==
    IF length = 0 \/ length = ie.length THEN [exc |-> "", ie |-> ie]
    ELSE InformationElement(ie.name, ie.pen, ie.num, ie.type, length)

\* The information model in use: four IANA elements of iana.iespec and the
\* enterprise element the tests register.
IE_protocolIdentifier ==
    InformationElement(Name("protocolIdentifier"), 0, 4, T_unsigned8, 0).ie

IE_sourceTransportPort ==
    InformationElement(Name("sourceTransportPort"), 0, 7, T_unsigned16, 0).ie

IE_flowStartSeconds ==
    InformationElement(Name("flowStartSeconds"), 0, 150, T_dateTimeSeconds, 0).ie

IE_octetDeltaCount ==
    InformationElement(Name("octetDeltaCount"), 0, 1, T_unsigned64, 8).ie

IE_testString ==
    InformationElement(Name("testString"), 35566, 32766, T_string, 0).ie

\* _ieForNum after use_iana_default() and the registration of testString
Registry ==
    {IE_octetDeltaCount, IE_protocolIdentifier, IE_sourceTransportPort,
     IE_flowStartSeconds, IE_testString}

\* the two indices of that registry
InfomodelLoaded ==
    /\ _ieForName = [n \in {e.name : e \in Registry} |->
                        CHOOSE e \in Registry : e.name = n]
    /\ _ieForNum = [k \in {<<e.pen, e.num>> : e \in Registry} |->
                       CHOOSE e \in Registry : <<e.pen, e.num>> = k]

\* for_template_entry: [exc, ie]
for_template_entry(pen, num, length) ==
    IF \E e \in Registry : e.pen = pen /\ e.num = num
    THEN IEForLength(CHOOSE e \in Registry : e.pen = pen /\ e.num = num, length)
    ELSE InformationElement(NoName, pen, num, T_octetArray, length)

\* An IESpec is the sequence of its lexical items: the characters ( / ) < >
\* [ ] and the space stand for themselves, and every maximal run of other
\* characters is one item.  int() of the runs of digits the model uses:
IntOf ==
    ("0" :> 0) @@ ("1" :> 1) @@ ("2" :> 2) @@ ("3" :> 3) @@ ("4" :> 4)
        @@ ("7" :> 7) @@ ("8" :> 8) @@ ("9" :> 9) @@ ("32766" :> 32766)
        @@ ("35566" :> 35566)

\* \d+ matches the item
IsDigits(item) == item \in DOMAIN IntOf

\* the number of items from position i on that a character class excluding
\* the items of stop matches greedily
RECURSIVE Run(_, _, _)
Run(spec, i, stop) ==
    IF i > Len(spec) \/ spec[i] \in stop THEN 0 ELSE 1 + Run(spec, i + 1, stop)

\* the text of a group: one item is its text, several items are kept apart
GroupText(spec, a, b) == IF a = b THEN spec[a] ELSE SubSeq(spec, a, b)

\* (\<(\S+)\>)? and (\[(\S+)\])? at position i: the position of the closing
\* item, the last one \S+ can stop before, or 0 if the group does not match
Closing(spec, i, open, close) ==
    LET Last(n) ==
            IF \E j \in (i + 2)..(i + n) : spec[j] = close
            THEN CHOOSE j \in (i + 2)..(i + n) :
                     /\ spec[j] = close
                     /\ \A k \in (j + 1)..(i + n) : spec[k] # close
            ELSE 0
    IN  IF i > Len(spec) \/ spec[i] # open THEN 0 ELSE Last(Run(spec, i + 1, {" "}))

\* parse_spec: [exc, name, pen, num, typename, length]; typename = "" is
\* False, and int() of a length that is no number is a ValueError
parse_spec(spec) ==
    LET Item(i) == IF i <= Len(spec) THEN spec[i] ELSE ""
        Sized(name, pen, num, typename, q) ==
            LET c == Closing(spec, q, "[", "]")
            IN  IF c # 0 /\ ~(c = q + 2 /\ IsDigits(spec[q + 1]))
                THEN [exc |-> "ValueError", name |-> name, pen |-> pen, num |-> num,
                      typename |-> typename, length |-> 0]
                ELSE [exc |-> "", name |-> name, pen |-> pen, num |-> num,
                      typename |-> typename,
                      length |-> IF c = 0 THEN 0 ELSE IntOf[spec[q + 1]]]
        Typed(name, pen, num, q) ==
            LET c == Closing(spec, q, "<", ">")
            IN  IF c = 0 THEN Sized(name, pen, num, "", q)
                ELSE Sized(name, pen, num, GroupText(spec, q + 1, c - 1), c + 1)
        Numbered(name, p) ==
            IF /\ Item(p) = "(" /\ IsDigits(Item(p + 1)) /\ Item(p + 2) = "/"
               /\ IsDigits(Item(p + 3)) /\ Item(p + 4) = ")"
            THEN Typed(name, IntOf[spec[p + 1]], IntOf[spec[p + 3]], p + 5)
            ELSE IF Item(p) = "(" /\ IsDigits(Item(p + 1)) /\ Item(p + 2) = ")"
                 THEN Typed(name, 0, IntOf[spec[p + 1]], p + 3)
            ELSE Typed(name, 0, 0, p)
        Named(n) ==
            Numbered(IF n = 0 THEN NoName ELSE Name(GroupText(spec, 1, n)), n + 1)
    IN  Named(Run(spec, 1, {" ", "[", "<", "("}))

\* the IE of a result that carries none
NoIE == InformationElement(NoName, 0, 0, T_octetArray, 0).ie

\* _register_ie: the two indices with ie entered
_register_ie(ieForName, ieForNum, ie) ==
    [ieForName |-> DictSet(ieForName, ie.name, ie),
     ieForNum |-> DictSet(ieForNum, <<ie.pen, ie.num>>, ie)]

\* not the code: a for_spec that registers an IE of type octetArray when
\* the spec gives no type or one that for_name does not know
for_spec_untyped(ieForName, ieForNum, spec) ==
    LET Same(exc, ie) ==
            [exc |-> exc, ie |-> ie, ieForName |-> ieForName, ieForNum |-> ieForNum]
        Looked(r) == Same(r.exc, r.ie)
        Entered(ie, reg) ==
            [exc |-> "", ie |-> ie, ieForName |-> reg.ieForName,
             ieForNum |-> reg.ieForNum]
        Made(r) ==
            IF r.exc # "" THEN Same(r.exc, NoIE)
            ELSE Entered(r.ie, _register_ie(ieForName, ieForNum, r.ie))
        Parsed(p) ==
            IF p.exc # "" THEN Same(p.exc, NoIE)
            ELSE IF /\ p.name = NoName /\ p.pen = 0 /\ p.num = 0
                    /\ p.typename = "" /\ p.length = 0
                 THEN Same("ValueError", NoIE)
            ELSE IF /\ p.name # NoName /\ p.pen = 0 /\ p.num = 0
                    /\ p.name \in DOMAIN ieForName
                 THEN Looked(IEForLength(ieForName[p.name], p.length))
            ELSE IF p.num # 0 /\ <<p.pen, p.num>> \in DOMAIN ieForNum
                 THEN Looked(IEForLength(ieForNum[<<p.pen, p.num>>], p.length))
            ELSE Made(InformationElement(p.name, p.pen, p.num, T_octetArray, p.length))
    IN  Parsed(parse_spec(spec))

\* for_spec on the registry (ieForName, ieForNum): [exc, ie, ieForName, ieForNum]
for_spec(ieForName, ieForNum, spec) ==
    LET Same(exc, ie) ==
            [exc |-> exc, ie |-> ie, ieForName |-> ieForName, ieForNum |-> ieForNum]
        Looked(r) == Same(r.exc, r.ie)
        Entered(ie, reg) ==
            [exc |-> "", ie |-> ie, ieForName |-> reg.ieForName,
             ieForNum |-> reg.ieForNum]
        Made(r) ==
            IF r.exc # "" THEN Same(r.exc, NoIE)
            ELSE Entered(r.ie, _register_ie(ieForName, ieForNum, r.ie))
        Typed(p, ft) ==
            IF ft.exc # "" THEN Same(ft.exc, NoIE)
            ELSE Made(InformationElement(p.name, p.pen, p.num, ft.type, p.length))
        Parsed(p) ==
            IF p.exc # "" THEN Same(p.exc, NoIE)
            ELSE IF /\ p.name = NoName /\ p.pen = 0 /\ p.num = 0
                    /\ p.typename = "" /\ p.length = 0
                 THEN Same("ValueError", NoIE)
            ELSE IF /\ p.name # NoName /\ p.pen = 0 /\ p.num = 0
                    /\ p.name \in DOMAIN ieForName
                 THEN Looked(IEForLength(ieForName[p.name], p.length))
            ELSE IF p.num # 0 /\ <<p.pen, p.num>> \in DOMAIN ieForNum
                 THEN Looked(IEForLength(ieForNum[<<p.pen, p.num>>], p.length))
            ELSE IF p.typename = "" THEN Same("ValueError", NoIE)
            ELSE Typed(p, for_name(p.typename))
    IN  Parsed(parse_spec(spec))

\* for_template_entry on the registry (ieForName, ieForNum), with the
\* registration of an IE that was not known: [exc, ie, ieForName, ieForNum]
for_template_entry_in(ieForName, ieForNum, pen, num, length) ==
    LET Same(r) ==
            [exc |-> r.exc, ie |-> r.ie, ieForName |-> ieForName,
             ieForNum |-> ieForNum]
        Entered(ie, reg) ==
            [exc |-> "", ie |-> ie, ieForName |-> reg.ieForName,
             ieForNum |-> reg.ieForNum]
        Made(r) ==
            IF r.exc # "" THEN Same(r)
            ELSE Entered(r.ie, _register_ie(ieForName, ieForNum, r.ie))
    IN  IF <<pen, num>> \in DOMAIN ieForNum
        THEN Same(IEForLength(ieForNum[<<pen, num>>], length))
        ELSE Made(InformationElement(NoName, pen, num, T_octetArray, length))

(***************************************************************************)
(* ipfix/template.py                                                       *)
(***************************************************************************)

TEMPLATE_SET_ID == 2

OPTIONS_SET_ID == 3

\* _tmplhdr_st.size, _otmplhdr_st.size, _iespec_st.size, _iepen_st.size
TmplHdrSize == 4

OTmplHdrSize == 6

IESpecSize == 4

IEPenSize == 4

\* packplan = None
NonePlan == [isNone |-> TRUE, indices |-> <<>>, els |-> <<>>]

\* Template.__init__ without IEs: [exc, tmpl]
Template(tid) ==
    [exc |-> IF tid < 256 \/ tid > 65535 THEN "ValueError" ELSE "",
     tmpl |-> [tid |-> tid, minlength |-> 0, enclength |-> 0, scopecount |-> 0,
               varlenslice |-> None, packplan |-> NonePlan, ies |-> <<>>]]

\* Template.append
TemplateAppend(t, ie) ==
    [t EXCEPT
        !.ies = Append(t.ies, ie),
        !.minlength = IF ie.length = VARLEN THEN @ + 1 ELSE @ + ie.length,
        !.varlenslice = IF ie.length = VARLEN /\ Falsy(@) THEN Len(t.ies) ELSE @,
        !.enclength = @ + IESpecSize + (IF ie.pen # 0 THEN IEPenSize ELSE 0)]

\* Template.count
TemplateCount(t) == Len(t.ies)

\* Template.fixlen_count
fixlen_count(t) ==
    IF ~Falsy(t.varlenslice) THEN t.varlenslice ELSE TemplateCount(t)

\* `i in indices`
InIndices(i, indices) == \E j \in 1..Len(indices) : indices[j] = i

\* TemplatePackingPlan.__init__: [exc, plan].  One element per IE before
\* fixlen_count: packed (stel) when its index is selected, skipped (skipel)
\* otherwise; an OctetArrayType has neither attribute.
TemplatePackingPlan(t, indices) ==
    LET n == fixlen_count(t)
    IN  IF \E i \in 1..n : IsOctetArrayType(t.ies[i].type)
        THEN [exc |-> "AttributeError", plan |-> NonePlan]
        ELSE [exc |-> "",
              plan |-> [isNone |-> FALSE, indices |-> indices,
                        els |-> [i \in 1..n |->
                                   [packed |-> InIndices(i - 1, indices),
                                    type |-> t.ies[i].type]]]]

\* range(count)
Range0(n) == [i \in 1..n |-> i - 1]

\* Template.finalize: [exc, tmpl]
finalize(t) ==
    LET Planned(p) == [exc |-> p.exc, tmpl |-> [t EXCEPT !.packplan = p.plan]]
    IN  Planned(TemplatePackingPlan(t, Range0(TemplateCount(t))))

RECURSIVE AppendAll(_, _)
AppendAll(t, ielist) ==
    IF ielist = <<>> THEN t
    ELSE AppendAll(TemplateAppend(t, Head(ielist)), Tail(ielist))

\* from_ielist: [exc, tmpl]
from_ielist(tid, ielist) ==
    LET Filled(t0) == IF t0.exc # "" THEN t0 ELSE finalize(AppendAll(t0.tmpl, ielist))
    IN  Filled(Template(tid))

\* Template.native_setid
native_setid(t) == IF t.scopecount # 0 THEN OPTIONS_SET_ID ELSE TEMPLATE_SET_ID

\* packplan.st.size
PlanSize(plan) ==
    LET RECURSIVE Sum(_)
        Sum(i) == IF i = 0 THEN 0 ELSE plan.els[i].type.length + Sum(i - 1)
    IN  Sum(Len(plan.els))

\* the plan's elements that carry a value, in template order
PackedEls(plan) == SelectSeq(plan.els, LAMBDA e : e.packed)

\* the offset of element i of the plan's struct
ElOffset(plan, i) ==
    LET RECURSIVE Sum(_)
        Sum(j) == IF j = 0 THEN 0 ELSE plan.els[j].type.length + Sum(j - 1)
    IN  Sum(i - 1)

\* the position among the packed elements of element i of the plan
PackedRank(plan, i) == Cardinality({j \in 1..i : plan.els[j].packed})

\* the bytes packplan.st packs for fixvals: pad bytes are written as zeros
FixedBytes(plan, fixvals) ==
    LET RECURSIVE Cat(_)
        Cat(i) ==
            IF i = 0 THEN <<>>
            ELSE Cat(i - 1) \o
                 (IF plan.els[i].packed
                  THEN StelPack(plan.els[i].type.stel, plan.els[i].type.length,
                                fixvals[PackedRank(plan, i)])
                  ELSE Zeros(plan.els[i].type.length))
    IN  Cat(Len(plan.els))

\* not the code: the variable-length part of encode_to without the length
\* prefixes
RECURSIVE EncodeTailUnprefixed(_, _, _, _, _, _)
EncodeTailUnprefixed(t, plan, vals, i, buf, offset) ==
    IF i >= TemplateCount(t) \/ i >= Len(vals)
    THEN [exc |-> "", buf |-> buf, offset |-> offset]
    ELSE IF ~InIndices(i, plan.indices)
         THEN EncodeTailUnprefixed(t, plan, vals, i + 1, buf, offset)
    ELSE LET Written(w) ==
                 IF w.exc # "" THEN w
                 ELSE EncodeTailUnprefixed(t, plan, vals, i + 1, w.buf, w.offset)
         IN  Written(encode_single_value_to(t.ies[i + 1].type, vals[i + 1],
                                            buf, offset))

\* the variable-length part of encode_to, from IE index i on: [exc, buf, offset]
RECURSIVE EncodeTail(_, _, _, _, _, _)
EncodeTail(t, plan, vals, i, buf, offset) ==
    IF i >= TemplateCount(t) \/ i >= Len(vals)
    THEN [exc |-> "", buf |-> buf, offset |-> offset]
    ELSE IF ~InIndices(i, plan.indices)
         THEN EncodeTail(t, plan, vals, i + 1, buf, offset)
    ELSE LET ie == t.ies[i + 1]
             Written(w) ==
                 IF w.exc # "" THEN w
                 ELSE EncodeTail(t, plan, vals, i + 1, w.buf, w.offset)
             Prefixed(v) ==
                 IF v.exc # "" THEN v
                 ELSE Written(encode_single_value_to(ie.type, vals[i + 1],
                                                     v.buf, v.offset))
         IN  Prefixed(IF ie.length = VARLEN
                      THEN encode_varlen(buf, offset,
                                         Len(ValEnc(ie.type, vals[i + 1])))
                      ELSE [exc |-> "", buf |-> buf, offset |-> offset])

\* Template.encode_to: [exc, buf, offset]
encode_to(t, buf, offset, vals, packplan) ==
    LET Packed(plan, b1, o1) ==
            IF Falsy(t.varlenslice)
            THEN [exc |-> "", buf |-> b1, offset |-> o1]
            ELSE EncodeTail(t, plan, vals, t.varlenslice, b1, o1)
        Encoded(plan, pe, n, fixvals) ==
            IF n < Len(pe)
               \/ (\E j \in 1..n : ~StelAccepts(pe[j].type.stel, fixvals[j]))
               \/ ~Fits(buf, offset, PlanSize(plan))
            THEN [exc |-> "struct.error", buf |-> buf, offset |-> offset]
            ELSE Packed(plan, Put(buf, offset, FixedBytes(plan, fixvals)),
                        offset + PlanSize(plan))
        Zipped(plan, pe, n) ==
            Encoded(plan, pe, n, [j \in 1..n |-> ValEnc(pe[j].type, vals[j])])
        Selected(plan, pe) == Zipped(plan, pe, Min(Len(pe), Len(vals)))
        Planned(plan) ==
            IF plan.isNone
            THEN [exc |-> "AttributeError", buf |-> buf, offset |-> offset]
            ELSE Selected(plan, PackedEls(plan))
    IN  Planned(IF packplan.isNone THEN t.packplan ELSE packplan)

\* the variable-length part of decode_from, from IE index i on: [exc, vals, offset]
RECURSIVE DecodeTail(_, _, _, _, _, _)
DecodeTail(t, plan, vals, i, buf, offset) ==
    IF i >= TemplateCount(t)
    THEN [exc |-> "", vals |-> vals, offset |-> offset]
    ELSE LET ie == t.ies[i + 1]
             Decoded(l, d) ==
                 IF d.exc # ""
                 THEN [exc |-> d.exc, vals |-> vals, offset |-> offset]
                 ELSE DecodeTail(t, plan, Append(vals, d.val), i + 1, buf,
                                 l.offset + l.length)
             Measured(l) ==
                 IF l.exc # "" THEN [exc |-> l.exc, vals |-> vals, offset |-> offset]
                 ELSE IF ~InIndices(i, plan.indices)
                      THEN DecodeTail(t, plan, vals, i + 1, buf, l.offset + l.length)
                 ELSE Decoded(l, decode_single_value_from(ie.type, buf, l.offset,
                                                          l.length))
         IN  Measured(IF ie.length = VARLEN THEN decode_varlen(buf, offset)
                      ELSE [exc |-> "", length |-> ie.length, offset |-> offset])

\* Template.decode_from: [exc, vals, offset]
decode_from(t, buf, offset, packplan) ==
    LET Decoded(plan, vals, o1) ==
            IF Falsy(t.varlenslice)
            THEN [exc |-> "", vals |-> vals, offset |-> o1]
            ELSE DecodeTail(t, plan, vals, t.varlenslice, buf, o1)
        Unpacked(plan, fix, sel) ==
            IF \E j \in 1..Len(sel) : fix[sel[j] + 1].exc # ""
            THEN [exc |-> "UnicodeDecodeError", vals |-> <<>>, offset |-> offset]
            ELSE Decoded(plan, [j \in 1..Len(sel) |-> fix[sel[j] + 1].val],
                         offset + PlanSize(plan))
        Planned(plan) ==
            IF plan.isNone
            THEN [exc |-> "AttributeError", vals |-> <<>>, offset |-> offset]
            ELSE IF ~Fits(buf, offset, PlanSize(plan))
            THEN [exc |-> "struct.error", vals |-> <<>>, offset |-> offset]
            ELSE Unpacked(plan,
                          [i \in 1..Len(plan.els) |->
                             ValDec(plan.els[i].type,
                                    StelUnpack(plan.els[i].type.stel,
                                               plan.els[i].type.length,
                                               buf, offset + ElOffset(plan, i)))],
                          SelectSeq(Range0(Len(plan.els)),
                                    LAMBDA i : plan.els[i + 1].packed))
    IN  Planned(IF packplan.isNone THEN t.packplan ELSE packplan)

\* { k: v for k, v in zip(keys, vals) }: a later value replaces an earlier one
DictOfZip(keys, vals) ==
    LET n == Min(Len(keys), Len(vals))
    IN  [k \in {keys[i] : i \in 1..n} |->
            vals[CHOOSE i \in 1..n :
                    keys[i] = k /\ \A j \in (i + 1)..n : keys[j] # k]]

\* the dict key of an IE: __hash__ and __eq__ see (pen, num) only
IEKey(ie) == <<ie.pen, ie.num>>

IEKeys(t) == [i \in 1..Len(t.ies) |-> IEKey(t.ies[i])]

IENames(t) == [i \in 1..Len(t.ies) |-> t.ies[i].name]

\* Template.decode_iedict_from: [exc, rec, offset]
decode_iedict_from(t, buf, offset, recinf) ==
    LET Keyed(d) ==
            [exc |-> d.exc, rec |-> DictOfZip(IEKeys(t), d.vals), offset |-> d.offset]
    IN  Keyed(decode_from(t, buf, offset, NonePlan))

\* Template.decode_namedict_from: [exc, rec, offset]
decode_namedict_from(t, buf, offset, recinf) ==
    LET Keyed(d) ==
            [exc |-> d.exc, rec |-> DictOfZip(IENames(t), d.vals), offset |-> d.offset]
    IN  Keyed(decode_from(t, buf, offset, NonePlan))

\* Template.encode_iedict_to: [exc, buf, offset]
encode_iedict_to(t, buf, offset, rec, recinf) ==
    IF \E i \in 1..Len(t.ies) : IEKey(t.ies[i]) \notin DOMAIN rec
    THEN [exc |-> "KeyError", buf |-> buf, offset |-> offset]
    ELSE encode_to(t, buf, offset,
                   [i \in 1..Len(t.ies) |-> rec[IEKey(t.ies[i])]], NonePlan)

\* Template.encode_namedict_to: [exc, buf, offset]
encode_namedict_to(t, buf, offset, rec, recinf) ==
    IF \E i \in 1..Len(t.ies) : t.ies[i].name \notin DOMAIN rec
    THEN [exc |-> "KeyError", buf |-> buf, offset |-> offset]
    ELSE encode_to(t, buf, offset,
                   [i \in 1..Len(t.ies) |-> rec[t.ies[i].name]], NonePlan)

\* self.ies.index(ie): the 0-based position of the first equal IE, None if absent
IndexOf(t, ie) ==
    IF \E i \in 1..Len(t.ies) : IEEq(t.ies[i], ie)
    THEN (CHOOSE i \in 1..Len(t.ies) :
             IEEq(t.ies[i], ie) /\ \A j \in 1..(i - 1) : ~IEEq(t.ies[j], ie)) - 1
    ELSE None

\* not the code: a plan for the IEs of the list that the template has, the
\* others left out
packplan_for_ielist_present(t, ielist) ==
    TemplatePackingPlan(t,
        [j \in 1..Len(SelectSeq(ielist, LAMBDA e : IndexOf(t, e) # None)) |->
            IndexOf(t, SelectSeq(ielist, LAMBDA e : IndexOf(t, e) # None)[j])])

\* Template.packplan_for_ielist: [exc, plan]
packplan_for_ielist(t, ielist) ==
    IF \E j \in 1..Len(ielist) : IndexOf(t, ielist[j]) = None
    THEN [exc |-> "ValueError", plan |-> NonePlan]
    ELSE TemplatePackingPlan(t, [j \in 1..Len(ielist) |-> IndexOf(t, ielist[j])])

\* sorted(zip(indices, vals)) keeps the values, ordered by the index paired
\* with each (the indices of a projection without repeats are distinct)
SortedByIndex(indices, vals) ==
    LET n == Min(Len(indices), Len(vals))
        rank(j) == Cardinality({k \in 1..n : indices[k] < indices[j]}) + 1
    IN  [r \in 1..n |-> vals[CHOOSE j \in 1..n : rank(j) = r]]

\* Template.decode_tuple_from: [exc, rec, offset]; recinf = <<>> is None
decode_tuple_from(t, buf, offset, recinf) ==
    LET Decoded(pp, d) ==
            IF d.exc # "" THEN [exc |-> d.exc, rec |-> <<>>, offset |-> offset]
            ELSE [exc |-> "", rec |-> SortedByIndex(pp.plan.indices, d.vals),
                  offset |-> d.offset]
        Planned(pp) ==
            IF pp.exc # "" THEN [exc |-> pp.exc, rec |-> <<>>, offset |-> offset]
            ELSE Decoded(pp, decode_from(t, buf, offset, pp.plan))
    IN  Planned(IF recinf # <<>> THEN packplan_for_ielist(t, recinf)
                ELSE [exc |-> "", plan |-> t.packplan])

\* struct items packed one after the other from offset on, each as a whole:
\* an item that does not fit raises struct.error and leaves the earlier ones
\* written.  [exc, buf, offset]
RECURSIVE PackItems(_, _, _)
PackItems(buf, offset, items) ==
    IF items = <<>> THEN [exc |-> "", buf |-> buf, offset |-> offset]
    ELSE IF ~Fits(buf, offset, Len(Head(items)))
         THEN [exc |-> "struct.error", buf |-> buf, offset |-> offset]
    ELSE PackItems(Put(buf, offset, Head(items)), offset + Len(Head(items)),
                   Tail(items))

\* the struct items of one IE of a template record: the enterprise bit is
\* set on the element id when the IE has a PEN, which follows it
IESpecItems(e) ==
    IF e.pen # 0
    THEN <<U16((e.num % 32768) + 32768) \o U16(e.length), U32(e.pen)>>
    ELSE <<U16(e.num) \o U16(e.length)>>

RECURSIVE AllIESpecItems(_)
AllIESpecItems(ies) ==
    IF ies = <<>> THEN <<>>
    ELSE IESpecItems(Head(ies)) \o AllIESpecItems(Tail(ies))

\* Template.encode_template_to: [exc, buf, offset]
encode_template_to(t, buf, offset, setid) ==
    IF setid = TEMPLATE_SET_ID
    THEN PackItems(buf, offset,
                   <<U16(t.tid) \o U16(TemplateCount(t))>> \o AllIESpecItems(t.ies))
    ELSE IF setid = OPTIONS_SET_ID
    THEN PackItems(buf, offset,
                   <<U16(t.tid) \o U16(TemplateCount(t)) \o U16(t.scopecount)>>
                       \o AllIESpecItems(t.ies))
    ELSE [exc |-> "IpfixEncodeError", buf |-> buf, offset |-> offset]

\* the `while count:` loop of decode_template_from: [exc, tmpl, offset]
RECURSIVE DecodeIESpecs(_, _, _, _)
DecodeIESpecs(buf, offset, count, t) ==
    IF count = 0 THEN [exc |-> "", tmpl |-> t, offset |-> offset]
    ELSE IF ~Fits(buf, offset, IESpecSize)
         THEN [exc |-> "struct.error", tmpl |-> t, offset |-> offset]
    ELSE
    LET num == Get16(buf, offset)
        length == Get16(buf, offset + 2)
        o1 == offset + IESpecSize
        haspen == num >= 32768
    IN  IF haspen /\ ~Fits(buf, o1, IEPenSize)
        THEN [exc |-> "struct.error", tmpl |-> t, offset |-> offset]
        ELSE
        LET pen == IF haspen THEN Get32(buf, o1) ELSE 0
            o2 == IF haspen THEN o1 + IESpecSize ELSE o1
            Entered(e) ==
                IF e.exc # "" THEN [exc |-> e.exc, tmpl |-> t, offset |-> offset]
                ELSE DecodeIESpecs(buf, o2, count - 1, TemplateAppend(t, e.ie))
        IN  Entered(for_template_entry(pen, num % 32768, length))

\* decode_template_from: [exc, tmpl, offset]
decode_template_from(buf, offset, setid) ==
    LET hdr == IF setid = TEMPLATE_SET_ID THEN TmplHdrSize ELSE OTmplHdrSize
    IN  IF setid # TEMPLATE_SET_ID /\ setid # OPTIONS_SET_ID
        THEN [exc |-> "IpfixDecodeError", tmpl |-> Template(256).tmpl, offset |-> offset]
        ELSE IF ~Fits(buf, offset, hdr)
        THEN [exc |-> "struct.error", tmpl |-> Template(256).tmpl, offset |-> offset]
        ELSE
        LET tid == Get16(buf, offset)
            count == Get16(buf, offset + 2)
            scopecount == IF setid = OPTIONS_SET_ID THEN Get16(buf, offset + 4) ELSE 0
            Finalized(d, f) == [exc |-> f.exc, tmpl |-> f.tmpl, offset |-> d.offset]
            Appended(d) == IF d.exc # "" THEN d ELSE Finalized(d, finalize(d.tmpl))
            Created(t0) ==
                IF t0.exc # "" THEN [exc |-> t0.exc, tmpl |-> t0.tmpl, offset |-> offset]
                ELSE Appended(DecodeIESpecs(buf, offset + hdr, count,
                                            [t0.tmpl EXCEPT !.scopecount = scopecount]))
        IN  Created(Template(tid))

(***************************************************************************)
(* ipfix/message.py: MessageBuffer                                         *)
(***************************************************************************)

\* _msghdr_st.size and _sethdr_st.size
MsgHdrSize == 16

SetHdrSize == 4

\* len(self.mbuf): the buffer of a MessageBuffer, 65536 bytes in the program
MbufSize == 56

\* int(datetime.utcnow().timestamp()): the clock reads the same second throughout
utcnow == 5

\* curtmpl = None
NoneTmpl == [Template(256).tmpl EXCEPT !.tid = None]

\* MessageBuffer.__init__, with the caller's mtu
MessageBuffer(mtu) ==
    [mbuf |-> [i \in 0..(MbufSize - 1) |-> 0],
     length |-> 0, sequence |-> None, export_epoch |-> None, odid |-> 0,
     streamid |-> 0, templates |-> EmptyDict, accepted_tids |-> {},
     sequences |-> EmptyDict, setlist |-> <<>>, cursetoff |-> 0,
     cursetid |-> None, curtmpl |-> NoneTmpl,
     last_tuple_iterator_ielist |-> None, mtu |-> mtu]

\* self.sequences.get((odid, streamid), 0)
SeqCounter(mb, odid) ==
    IF <<odid, mb.streamid>> \in DOMAIN mb.sequences
    THEN mb.sequences[<<odid, mb.streamid>>] ELSE 0

\* not the code: a counter that is stored under the stream id alone
_increment_sequence_any_domain(mb) ==
    [mb EXCEPT !.sequences =
        DictSet(@, <<0, mb.streamid>>, SeqCounter(mb, 0) + 1)]

\* MessageBuffer._increment_sequence
_increment_sequence(mb) ==
    [mb EXCEPT !.sequences =
        DictSet(@, <<mb.odid, mb.streamid>>, SeqCounter(mb, mb.odid) + 1)]

\* the header "!HHLLL" as to_bytes packs it
MsgHdrBytes(length, sequence, export_epoch, odid) ==
    U16(10) \o U16(length) \o U32(sequence) \o U32(export_epoch) \o U32(odid)

\* the `while` loop of _scan_setlist: [exc, setlist].  A set length of 0 never
\* advances the offset: the loop appends without end ("NoReturn").
RECURSIVE ScanSets(_, _, _, _)
ScanSets(mbuf, length, offset, setlist) ==
    IF offset >= length THEN [exc |-> "", setlist |-> setlist]
    ELSE IF ~Fits(mbuf, offset, SetHdrSize)
         THEN [exc |-> "struct.error", setlist |-> setlist]
    ELSE LET setid == Get16(mbuf, offset)
             setlen == Get16(mbuf, offset + 2)
         IN  IF offset + setlen > length
             THEN [exc |-> "NameError", setlist |-> setlist]
             ELSE IF setlen = 0
                  THEN [exc |-> "NoReturn",
                        setlist |-> Append(setlist, <<offset, setid, setlen>>)]
             ELSE ScanSets(mbuf, length, offset + setlen,
                           Append(setlist, <<offset, setid, setlen>>))

\* MessageBuffer._scan_setlist: [exc, mb]
_scan_setlist(mb) ==
    LET Scanned(m1, r) == [exc |-> r.exc, mb |-> [m1 EXCEPT !.setlist = r.setlist]]
        Reset(m1) == Scanned(m1, ScanSets(m1.mbuf, m1.length, MsgHdrSize, <<>>))
    IN  Reset([mb EXCEPT !.cursetoff = 0, !.cursetid = None, !.curtmpl = NoneTmpl])

\* not the code: a from_bytes that takes any length that covers the header
from_bytes_lax(mb, bytes) ==
    LET Unpacked(version, m2) ==
            IF version # 10 THEN [exc |-> "IpfixDecodeError", mb |-> m2]
            ELSE IF m2.length < MsgHdrSize THEN [exc |-> "IpfixDecodeError", mb |-> m2]
            ELSE _scan_setlist(m2)
    IN  IF Len(bytes) > BufLen(mb.mbuf) \/ Len(bytes) < MsgHdrSize
        THEN [exc |-> "ValueError", mb |-> mb]
        ELSE Unpacked(Get16(Put(mb.mbuf, 0, bytes), 0),
                      [mb EXCEPT !.mbuf = Put(@, 0, bytes),
                                 !.length = Get16(Put(mb.mbuf, 0, bytes), 2),
                                 !.sequence = Get32(Put(mb.mbuf, 0, bytes), 4),
                                 !.export_epoch = Get32(Put(mb.mbuf, 0, bytes), 8),
                                 !.odid = Get32(Put(mb.mbuf, 0, bytes), 12)])

\* MessageBuffer.from_bytes: [exc, mb]
from_bytes(mb, bytes) ==
    IF Len(bytes) > BufLen(mb.mbuf) THEN [exc |-> "ValueError", mb |-> mb]
    ELSE
    LET Unpacked(version, m2) ==
            IF version # 10 THEN [exc |-> "IpfixDecodeError", mb |-> m2]
            ELSE IF m2.length < 20 THEN [exc |-> "IpfixDecodeError", mb |-> m2]
            ELSE _scan_setlist(m2)
        Copied(m1) ==
            IF Len(bytes) < MsgHdrSize THEN [exc |-> "NameError", mb |-> m1]
            ELSE Unpacked(Get16(m1.mbuf, 0),
                          [m1 EXCEPT !.length = Get16(m1.mbuf, 2),
                                     !.sequence = Get32(m1.mbuf, 4),
                                     !.export_epoch = Get32(m1.mbuf, 8),
                                     !.odid = Get32(m1.mbuf, 12)])
    IN  Copied([mb EXCEPT !.mbuf = Put(@, 0, bytes)])

\* MessageBuffer.read_message: [exc, mb], for a stream that holds the bytes
\* `stream` and then ends.  stream.read(n) returns the n next bytes, or the
\* fewer that are left.
read_message(mb, stream) ==
    LET Unpacked(version, m2) ==
            IF version # 10 THEN [exc |-> "IpfixDecodeError", mb |-> m2]
            ELSE IF m2.length < 20 THEN [exc |-> "IpfixDecodeError", mb |-> m2]
            ELSE IF Len(stream) - MsgHdrSize < m2.length - MsgHdrSize
            THEN [exc |-> "IpfixDecodeError", mb |-> m2]
            ELSE IF ~Fits(m2.mbuf, MsgHdrSize, m2.length - MsgHdrSize)
            THEN [exc |-> "ValueError", mb |-> m2]
            ELSE _scan_setlist(
                    [m2 EXCEPT !.mbuf = Put(@, MsgHdrSize,
                                            SubSeq(stream, MsgHdrSize + 1, m2.length))])
        Copied(m1) ==
            Unpacked(Get16(m1.mbuf, 0),
                     [m1 EXCEPT !.length = Get16(m1.mbuf, 2),
                                !.sequence = Get32(m1.mbuf, 4),
                                !.export_epoch = Get32(m1.mbuf, 8),
                                !.odid = Get32(m1.mbuf, 12)])
    IN  IF Len(stream) = 0 THEN [exc |-> "EOFError", mb |-> mb]
        ELSE IF Len(stream) < MsgHdrSize THEN [exc |-> "IpfixDecodeError", mb |-> mb]
        ELSE Copied([mb EXCEPT !.mbuf = Put(@, 0, SubSeq(stream, 1, MsgHdrSize))])

\* decode_fn, by the record shape it returns: [exc, rec, offset]
DecodeFn(shape, t, buf, offset, recinf) ==
    CASE shape = "namedict" -> decode_namedict_from(t, buf, offset, recinf)
      [] shape = "iedict" -> decode_iedict_from(t, buf, offset, recinf)
      [] OTHER -> decode_tuple_from(t, buf, offset, recinf)

\* tmplaccept_fn: accept_all_templates when ielist is <<>>, otherwise the
\* predicate of tuple_iterator, "every IE of ielist is in the template"
TmplAccept(ielist, t) ==
    \A j \in 1..Len(ielist) : IndexOf(t, ielist[j]) # None

\* not the code: a record loop that yields the records of a set last first
RECURSIVE DecodeRecordsLastFirst(_, _, _, _, _, _, _)
DecodeRecordsLastFirst(t, buf, offset, setend, shape, recinf, recs) ==
    IF offset + t.minlength > setend THEN [exc |-> "", recs |-> recs]
    ELSE LET Decoded(d) ==
                 IF d.exc # "" THEN [exc |-> d.exc, recs |-> recs]
                 ELSE IF d.offset = offset THEN [exc |-> "NoReturn", recs |-> recs]
                 ELSE DecodeRecordsLastFirst(t, buf, d.offset, setend, shape, recinf,
                                             <<d.rec>> \o recs)
         IN  Decoded(DecodeFn(shape, t, buf, offset, recinf))

\* the record loop of record_iterator over one data set: [exc, recs].  A
\* template without IEs decodes nothing and never advances ("NoReturn").
RECURSIVE DecodeRecords(_, _, _, _, _, _, _)
DecodeRecords(t, buf, offset, setend, shape, recinf, recs) ==
    IF offset + t.minlength > setend THEN [exc |-> "", recs |-> recs]
    ELSE LET Decoded(d) ==
                 IF d.exc # "" THEN [exc |-> d.exc, recs |-> recs]
                 ELSE IF d.offset = offset THEN [exc |-> "NoReturn", recs |-> recs]
                 ELSE DecodeRecords(t, buf, d.offset, setend, shape, recinf,
                                    Append(recs, d.rec))
         IN  Decoded(DecodeFn(shape, t, buf, offset, recinf))

\* the template loop of record_iterator over one template set: [exc, mb]
RECURSIVE DecodeTemplates(_, _, _, _, _)
DecodeTemplates(mb, offset, setend, setid, accept) ==
    IF offset >= setend THEN [exc |-> "", mb |-> mb]
    ELSE LET Decoded(d) ==
                 IF d.exc # "" THEN [exc |-> d.exc, mb |-> mb]
                 ELSE DecodeTemplates(
                        [mb EXCEPT
                           !.templates = DictSet(@, <<mb.odid, d.tmpl.tid>>, d.tmpl),
                           !.accepted_tids =
                               IF TmplAccept(accept, d.tmpl)
                               THEN @ \cup {<<mb.odid, d.tmpl.tid>>}
                               ELSE @ \ {<<mb.odid, d.tmpl.tid>>}],
                        d.offset, setend, setid, accept)
         IN  Decoded(decode_template_from(mb.mbuf, offset, setid))

\* tmpl = self.templates[(self.odid, setid)]: the lookup succeeds (no KeyError)
TemplateStored(mb, setid) == <<mb.odid, setid>> \in DOMAIN mb.templates

\* not the code: a lookup by template id alone, the lowest domain first
TemplateForSetAnyDomain(mb, setid) ==
    LET keys == {k \in DOMAIN mb.templates : k[2] = setid}
    IN  mb.templates[CHOOSE k \in keys : \A k2 \in keys : k[1] <= k2[1]]

\* tmpl = self.templates[(self.odid, setid)]: the template a data set is decoded with
TemplateForSet(mb, setid) == mb.templates[<<mb.odid, setid>>]

RECURSIVE AddSequence(_, _)
AddSequence(mb, n) ==
    IF n = 0 THEN mb ELSE AddSequence(_increment_sequence(mb), n - 1)

\* MessageBuffer.record_iterator, run to exhaustion: [exc, mb, recs, uses].
\* sets is the part of self.setlist still to visit, recs the records yielded
\* so far; uses logs, for each data set visited, the set id, the domain, the
\* template store at that moment, whether the set was decoded, the template
\* handed to decode_fn and the number of records the set yielded.
RECURSIVE IterateSets(_, _, _, _, _, _, _)
IterateSets(mb, sets, shape, accept, recinf, recs, uses) ==
    IF sets = <<>> THEN [exc |-> "", mb |-> mb, recs |-> recs, uses |-> uses]
    ELSE
    LET offset == Head(sets)[1] + SetHdrSize
        setid == Head(sets)[2]
        setend == Head(sets)[1] + Head(sets)[3]
        visit == [setid |-> setid, odid |-> mb.odid, store |-> mb.templates,
                  decoded |-> FALSE, tmpl |-> NoneTmpl, n |-> 0]
    IN  IF setid = 2 \/ setid = 3
        THEN LET Stored(r) ==
                     IF r.exc # ""
                     THEN [exc |-> r.exc, mb |-> r.mb, recs |-> recs, uses |-> uses]
                     ELSE IterateSets(r.mb, Tail(sets), shape, accept, recinf,
                                      recs, uses)
             IN  Stored(DecodeTemplates(mb, offset, setend, setid, accept))
        ELSE IF setid < 256
        THEN [exc |-> "TypeError", mb |-> mb, recs |-> recs, uses |-> uses]
        ELSE IF <<mb.odid, setid>> \in mb.accepted_tids
                /\ TemplateStored(mb, setid)
        THEN LET Yielded(tmpl, r, m1) ==
                     IF r.exc # ""
                     THEN [exc |-> r.exc, mb |-> m1, recs |-> recs \o r.recs,
                           uses |-> Append(uses, [visit EXCEPT !.decoded = TRUE,
                                                    !.tmpl = tmpl, !.n = Len(r.recs)])]
                     ELSE IterateSets(m1, Tail(sets), shape, accept, recinf,
                                      recs \o r.recs,
                                      Append(uses, [visit EXCEPT !.decoded = TRUE,
                                                      !.tmpl = tmpl, !.n = Len(r.recs)]))
                 Decoded(tmpl, r) == Yielded(tmpl, r, AddSequence(mb, Len(r.recs)))
                 Looked(tmpl) ==
                     Decoded(tmpl, DecodeRecords(tmpl, mb.mbuf, offset, setend,
                                                 shape, recinf, <<>>))
             IN  Looked(TemplateForSet(mb, setid))
        ELSE IterateSets(mb, Tail(sets), shape, accept, recinf, recs,
                         Append(uses, visit))

record_iterator(mb, shape, accept, recinf) ==
    IterateSets(mb, mb.setlist, shape, accept, recinf, <<>>, <<>>)

\* MessageBuffer.namedict_iterator
namedict_iterator(mb) == record_iterator(mb, "namedict", <<>>, <<>>)

\* an InformationElementList object: id is its identity (`is`), ies its IEs
IEList(id, ies) == [id |-> id, ies |-> ies]

\* MessageBuffer._recache_accepted_tids with the predicate of tuple_iterator:
\* the templates of the current domain are accepted or discarded anew
_recache_accepted_tids(mb, ielist) ==
    [mb EXCEPT !.accepted_tids =
        (@ \cup {k \in DOMAIN mb.templates :
                    k[1] = mb.odid /\ TmplAccept(ielist, mb.templates[k])})
           \ {k \in DOMAIN mb.templates :
                    k[1] = mb.odid /\ ~TmplAccept(ielist, mb.templates[k])}]

\* MessageBuffer.tuple_iterator, run to exhaustion: [exc, mb, recs, uses]
tuple_iterator(mb, L) ==
    LET Cached(m1) ==
            record_iterator([m1 EXCEPT !.last_tuple_iterator_ielist = L.id],
                            "tuple", L.ies, L.ies)
    IN  Cached(IF Falsy(mb.last_tuple_iterator_ielist)
                  \/ L.id # mb.last_tuple_iterator_ielist
               THEN _recache_accepted_tids(mb, L.ies) ELSE mb)

\* MessageBuffer._export_close_set: [exc, mb]
_export_close_set(mb) ==
    IF Falsy(mb.cursetid) THEN [exc |-> "", mb |-> mb]
    ELSE IF mb.length - mb.cursetoff < 0 \/ mb.length - mb.cursetoff > 65535
            \/ ~Fits(mb.mbuf, mb.cursetoff, SetHdrSize)
         THEN [exc |-> "struct.error", mb |-> mb]
    ELSE [exc |-> "",
          mb |-> [mb EXCEPT
                    !.mbuf = Put(@, mb.cursetoff,
                                 U16(mb.cursetid) \o U16(mb.length - mb.cursetoff)),
                    !.cursetid = None]]

\* MessageBuffer.to_bytes: [exc, mb, bytes]
to_bytes(mb) ==
    LET Packed(m2) ==
            [exc |-> "", mb |-> m2, bytes |-> Slice(m2.mbuf, 0, m2.length)]
        Stamped(m1) ==
            IF m1.sequence = None
            THEN [exc |-> "struct.error", mb |-> m1, bytes |-> <<>>]
            ELSE Packed([m1 EXCEPT !.mbuf =
                           Put(@, 0, MsgHdrBytes(m1.length, m1.sequence,
                                                 m1.export_epoch, m1.odid))])
        Closed(c) ==
            IF c.exc # "" THEN [exc |-> c.exc, mb |-> c.mb, bytes |-> <<>>]
            ELSE Stamped([c.mb EXCEPT !.export_epoch = utcnow])
    IN  Closed(_export_close_set(mb))

\* not the code: a begin_export that keeps the set index of the message read
\* and starts from an empty template store
begin_export_forgetting(mb, odid) ==
    LET Started(m1) ==
            IF m1.mtu <= m1.length THEN [exc |-> "IpfixEncodeError", mb |-> m1]
            ELSE [exc |-> "", mb |-> [m1 EXCEPT !.cursetid = None]]
    IN  Started([mb EXCEPT
                   !.templates = EmptyDict,
                   !.sequence = SeqCounter(mb, mb.odid),
                   !.odid = IF odid # 0 THEN odid ELSE @,
                   !.length = MsgHdrSize,
                   !.cursetoff = MsgHdrSize,
                   !.mbuf = Put(@, 0, Zeros(MsgHdrSize))])

\* MessageBuffer.begin_export: [exc, mb]; odid = 0 is the default, None
begin_export(mb, odid) ==
    LET Started(m1) ==
            IF m1.mtu <= m1.length THEN [exc |-> "IpfixEncodeError", mb |-> m1]
            ELSE [exc |-> "", mb |-> [m1 EXCEPT !.cursetid = None]]
    IN  Started([mb EXCEPT
                   !.setlist = <<>>,
                   !.sequences = DictSet(@, <<mb.odid, mb.streamid>>,
                                         SeqCounter(mb, mb.odid)),
                   !.sequence = SeqCounter(mb, mb.odid),
                   !.odid = IF odid # 0 THEN odid ELSE @,
                   !.length = MsgHdrSize,
                   !.cursetoff = MsgHdrSize,
                   !.mbuf = Put(@, 0, Zeros(MsgHdrSize))])

\* MessageBuffer.export_new_set: [exc, mb]
export_new_set(mb, setid) ==
    LET Opened(m2) ==
            IF ~Fits(m2.mbuf, m2.length, SetHdrSize)
            THEN [exc |-> "struct.error", mb |-> m2]
            ELSE [exc |-> "",
                  mb |-> [m2 EXCEPT !.mbuf = Put(@, m2.length, U16(setid) \o U16(0)),
                                    !.length = @ + SetHdrSize]]
        Closed(c, m1, key) ==
            IF c.exc # "" THEN c
            ELSE IF setid >= 256 /\ key \notin DOMAIN m1.templates
            THEN [exc |-> "IpfixEncodeError", mb |-> m1]
            ELSE IF setid >= 256
                    /\ m1.length + SetHdrSize + m1.templates[key].minlength > m1.mtu
            THEN [exc |-> "EndOfMessage", mb |-> m1]
            ELSE Opened([m1 EXCEPT
                           !.cursetoff = m1.length,
                           !.cursetid = setid,
                           !.curtmpl = IF setid >= 256 THEN m1.templates[key]
                                       ELSE NoneTmpl])
        Close(c) == Closed(c, c.mb, <<c.mb.odid, setid>>)
    IN  Close(_export_close_set(mb))

\* MessageBuffer.export_ensure_set: [exc, mb]
export_ensure_set(mb, setid) ==
    IF mb.cursetid # setid THEN export_new_set(mb, setid)
    ELSE [exc |-> "", mb |-> mb]

\* MessageBuffer.export_template: [exc, mb]
export_template(mb, tid) ==
    IF <<mb.odid, tid>> \notin DOMAIN mb.templates
    THEN [exc |-> "KeyError", mb |-> mb]
    ELSE
    LET Encoded(m1, e) ==
            IF e.exc # ""
            THEN [exc |-> e.exc, mb |-> [m1 EXCEPT !.mbuf = e.buf]]
            ELSE [exc |-> "",
                  mb |-> [m1 EXCEPT !.mbuf = e.buf, !.length = e.offset]]
        Ensured(tmpl, s, m1) ==
            IF s.exc # "" THEN s
            ELSE IF m1.length + tmpl.enclength > m1.mtu
            THEN [exc |-> "EndOfMessage", mb |-> m1]
            ELSE Encoded(m1, encode_template_to(tmpl, m1.mbuf, m1.length,
                                                native_setid(tmpl)))
        Ensure(tmpl, s) == Ensured(tmpl, s, s.mb)
        Found(tmpl) == Ensure(tmpl, export_ensure_set(mb, native_setid(tmpl)))
    IN  Found(mb.templates[<<mb.odid, tid>>])

\* MessageBuffer.add_template: [exc, mb]
add_template(mb, tmpl, export) ==
    LET Added(m1) ==
            IF export THEN export_template(m1, tmpl.tid) ELSE [exc |-> "", mb |-> m1]
    IN  Added([mb EXCEPT !.templates = DictSet(@, <<mb.odid, tmpl.tid>>, tmpl)])

\* MessageBuffer.delete_template: [exc, mb].  With export, the call goes on to
\* self.export_template_withdrawal, a method the class does not have.
delete_template(mb, tid, export) ==
    IF <<mb.odid, tid>> \notin DOMAIN mb.templates
    THEN [exc |-> "KeyError", mb |-> mb]
    ELSE LET m1 == [mb EXCEPT !.templates = DictDel(@, <<mb.odid, tid>>)]
         IN  [exc |-> IF export THEN "AttributeError" ELSE "", mb |-> m1]

\* encode_fn, by the record shape it takes: [exc, buf, offset]
EncodeFn(shape, t, buf, offset, rec, recinf) ==
    IF t = NoneTmpl THEN [exc |-> "AttributeError", buf |-> buf, offset |-> offset]
    ELSE CASE shape = "namedict" -> encode_namedict_to(t, buf, offset, rec, recinf)
           [] shape = "iedict" -> encode_iedict_to(t, buf, offset, rec, recinf)
           [] OTHER -> encode_to(t, buf, offset, rec, NonePlan)

\* not the code: an export_record that raises EndOfMessage with the length left
\* where the encoder stopped
export_record_unrestored(mb, rec, shape, recinf) ==
    LET Encoded(e, m1, m2) ==
            IF e.exc = "struct.error" THEN [exc |-> "EndOfMessage", mb |-> m1]
            ELSE IF e.exc # "" THEN [exc |-> e.exc, mb |-> m1]
            ELSE IF m2.length > m2.mtu THEN [exc |-> "EndOfMessage", mb |-> m2]
            ELSE [exc |-> "", mb |-> _increment_sequence(m2)]
        Encode(e) == Encoded(e, [mb EXCEPT !.mbuf = e.buf],
                             [mb EXCEPT !.mbuf = e.buf, !.length = e.offset])
    IN  Encode(EncodeFn(shape, mb.curtmpl, mb.mbuf, mb.length, rec, recinf))

\* MessageBuffer.export_record: [exc, mb]
export_record(mb, rec, shape, recinf) ==
    LET savelength == mb.length
        Encoded(e, m1, m2) ==
            IF e.exc = "struct.error"
            THEN [exc |-> "EndOfMessage", mb |-> [m1 EXCEPT !.length = savelength]]
            ELSE IF e.exc # "" THEN [exc |-> e.exc, mb |-> m1]
            ELSE IF m2.length > m2.mtu
            THEN [exc |-> "EndOfMessage", mb |-> [m2 EXCEPT !.length = savelength]]
            ELSE [exc |-> "", mb |-> _increment_sequence(m2)]
        Encode(e) == Encoded(e, [mb EXCEPT !.mbuf = e.buf],
                             [mb EXCEPT !.mbuf = e.buf, !.length = e.offset])
    IN  Encode(EncodeFn(shape, mb.curtmpl, mb.mbuf, mb.length, rec, recinf))

\* MessageBuffer.export_namedict
export_namedict(mb, rec) == export_record(mb, rec, "namedict", <<>>)

(***************************************************************************)
(* The record codec of a template, applied to bounded inputs               *)
(***************************************************************************)

\* the longest IE list of a template under test
MaxIEs == 3

\* the size of the buffer records are encoded into
CodecBufSize == 16

\* the sequences of n distinct elements of S
InjSeqs(S, n) ==
    {s \in [1..n -> S] : \A i, j \in 1..n : i # j => s[i] # s[j]}

IELists == UNION {InjSeqs(Registry \ {IE_octetDeltaCount}, n) : n \in 1..MaxIEs}

\* values a caller may give an IE: an unsigned8, an unsigned16, a datetime
\* (with and without microseconds), a str ("", "a", "ü")
IEValues(ie) ==
    CASE ie.type.name = "unsigned8" -> {PyInt(7), PyInt(255)}
      [] ie.type.name = "unsigned16" -> {PyInt(258)}
      [] ie.type.name = "dateTimeSeconds" ->
            {DateTime(66000, 0), DateTime(66000, 500000)}
      [] OTHER -> {PyStr(<<>>), PyStr(<<97>>), PyStr(<<252>>)}

\* the records valid for an IE list, as values in template order
RECURSIVE ValsFor(_)
ValsFor(ielist) ==
    IF ielist = <<>> THEN {<<>>}
    ELSE {<<v>> \o r : v \in IEValues(Head(ielist)), r \in ValsFor(Tail(ielist))}

\* the non-empty projections of an IE list: any ordering of any subset
Projections(ielist) ==
    UNION {InjSeqs({ielist[i] : i \in 1..Len(ielist)}, n) : n \in 1..Len(ielist)}

CodecBuf == [i \in 0..(CodecBufSize - 1) |-> 0]

NoResult == [exc |-> "", rec |-> <<>>, offset |-> 0]

NoIteration == [exc |-> "", recs |-> <<>>, uses |-> <<>>, ielist |-> <<>>]

NoCall == [op |-> "", exc |-> "", length |-> 0, export |-> FALSE]

\* observation domains of the caller: 0 is the domain of a new MessageBuffer,
\* and begin_export(0) stands for begin_export() without an odid
Odids == {0, 1}

HistInit ==
    [calls |-> 0, exporting |-> "no", begin_counter |-> 0,
     exported |-> [o \in Odids |-> 0], phase |-> 0, sent |-> <<>>]

\* the message variables while only the codec is under test
MsgIdle ==
    /\ msg = MessageBuffer(MbufSize - 1)
    /\ wire = <<>>
    /\ last = NoCall
    /\ hist = HistInit
    /\ fresh = NoIteration
    /\ it = NoIteration

CodecIdle ==
    [made |-> Template(256), ielist |-> <<>>, vals |-> <<>>, offset |-> 0,
     op |-> "idle", proj |-> <<>>,
     enc |-> [exc |-> "", buf |-> CodecBuf, offset |-> 0], dec |-> NoResult]

CodecInit ==
    /\ MsgIdle
    /\ InfomodelLoaded
    /\ \E ielist \in IELists : \E vals \in ValsFor(ielist) : \E off \in {0, 2} :
        \E tid \in {256} :
            cx = [made |-> from_ielist(tid, ielist), ielist |-> ielist,
                  vals |-> vals, offset |-> off, op |-> "", proj |-> <<>>,
                  enc |-> [exc |-> "", buf |-> CodecBuf, offset |-> off],
                  dec |-> NoResult]

\* encode_to, then decode_from
CodecOrdered ==
    /\ cx.op = ""
    /\ LET t == cx.made.tmpl
           Decoded(e, d) ==
               cx' = [cx EXCEPT !.op = "ordered", !.enc = e,
                         !.dec = [exc |-> d.exc, rec |-> d.vals, offset |-> d.offset]]
           Encoded(e) == Decoded(e, decode_from(t, e.buf, cx.offset, NonePlan))
       IN  Encoded(encode_to(t, CodecBuf, cx.offset, cx.vals, NonePlan))

\* encode_namedict_to, then decode_namedict_from
CodecNamedict ==
    /\ cx.op = ""
    /\ LET t == cx.made.tmpl
           Encoded(e) ==
               cx' = [cx EXCEPT !.op = "namedict", !.enc = e,
                         !.dec = decode_namedict_from(t, e.buf, cx.offset, <<>>)]
       IN  Encoded(encode_namedict_to(t, CodecBuf, cx.offset,
                                      DictOfZip(IENames(t), cx.vals), <<>>))

\* encode_iedict_to, then decode_iedict_from
CodecIedict ==
    /\ cx.op = ""
    /\ LET t == cx.made.tmpl
           Encoded(e) ==
               cx' = [cx EXCEPT !.op = "iedict", !.enc = e,
                         !.dec = decode_iedict_from(t, e.buf, cx.offset, <<>>)]
       IN  Encoded(encode_iedict_to(t, CodecBuf, cx.offset,
                                    DictOfZip(IEKeys(t), cx.vals), <<>>))

\* encode_to, then decode_tuple_from with a projection
CodecTuple ==
    /\ cx.op = ""
    /\ \E proj \in Projections(cx.ielist) :
        LET t == cx.made.tmpl
            Encoded(e) ==
                cx' = [cx EXCEPT !.op = "tuple", !.proj = proj, !.enc = e,
                          !.dec = decode_tuple_from(t, e.buf, cx.offset, proj)]
        IN  Encoded(encode_to(t, CodecBuf, cx.offset, cx.vals, NonePlan))

CodecNext ==
    (CodecOrdered \/ CodecNamedict \/ CodecIedict \/ CodecTuple)
        /\ UNCHANGED <<msgvars, infomodel>>

SpecCodec == CodecInit /\ [][CodecNext]_vars

(***************************************************************************)
(* An exporter: one MessageBuffer, written by any sequence of calls         *)
(***************************************************************************)

\* the caller makes at most this many calls
MaxCalls == 6

\* the small mtu a caller may set; the other is the default, len(mbuf) - 1
SmallMtu == 26

MTUs == {SmallMtu, MbufSize - 1}

\* the template of the caller, with a variable-length IE after a fixed one
Tmpl == from_ielist(256, <<IE_flowStartSeconds, IE_testString>>).tmpl

\* set ids a caller asks for: the template set and the id of the template
SetIds == {TEMPLATE_SET_ID, 256}

RecNames == {Name("flowStartSeconds"), Name("testString")}

\* records as dicts keyed by IE name: RecA is on a whole second, RecB is not
\* and has a two-octet character, RecC is before the epoch
RecA ==
    [n \in RecNames |->
        IF n = Name("flowStartSeconds") THEN DateTime(66000, 0) ELSE PyStr(<<97>>)]

RecB ==
    [n \in RecNames |->
        IF n = Name("flowStartSeconds") THEN DateTime(66001, 500000)
        ELSE PyStr(<<252>>)]

RecC ==
    [n \in RecNames |->
        IF n = Name("flowStartSeconds") THEN DateTime(-1, 0) ELSE PyStr(<<97>>)]

Records == {RecA, RecB, RecC}

Init ==
    /\ \E mtu \in MTUs : msg = MessageBuffer(mtu)
    /\ wire = <<>>
    /\ last = NoCall
    /\ hist = HistInit
    /\ fresh = NoIteration
    /\ it = NoIteration
    /\ cx = CodecIdle
    /\ InfomodelLoaded

\* a call, the exception it raised ("" if none), the message length before
\* it and, for delete_template, its export argument
Called(op, exc) == [op |-> op, exc |-> exc, length |-> msg.length, export |-> FALSE]

\* hist.exporting is "yes" from a successful begin_export on, "sent" right after
\* the to_bytes that returns the message, and "no" otherwise
After(e) == IF e = "sent" THEN "no" ELSE e

\* hist.phase follows the message built by begin_export, add_template with
\* export, export_ensure_set of the template's id and exports of records
\* (1, 2, 3), and then returned by to_bytes (4); it is 0 after any other call
BeginExport(odid) ==
    LET Begun(r) ==
            /\ hist.calls < MaxCalls
            /\ msg' = r.mb
            /\ last' = Called("begin_export", r.exc)
            /\ hist' = [hist EXCEPT
                          !.calls = @ + 1,
                          !.exporting = IF r.exc = "" THEN "yes" ELSE "no",
                          !.begin_counter = SeqCounter(msg, IF odid # 0 THEN odid ELSE msg.odid),
                          !.phase = IF r.exc = "" THEN 1 ELSE 0,
                          !.sent = <<>>]
            /\ UNCHANGED <<wire, fresh, it, cx, infomodel>>
    IN  Begun(begin_export(msg, odid))

AddTemplate(tmpl, export) ==
    LET Added(r) ==
            /\ hist.calls < MaxCalls
            /\ msg' = r.mb
            /\ last' = Called("add_template", r.exc)
            /\ hist' = [hist EXCEPT
                          !.calls = @ + 1,
                          !.exporting = After(@),
                          !.phase = IF hist.phase = 1 /\ export /\ r.exc = "" THEN 2 ELSE 0]
            /\ UNCHANGED <<wire, fresh, it, cx, infomodel>>
    IN  Added(add_template(msg, tmpl, export))

DeleteTemplate(tid, export) ==
    LET Deleted(r) ==
            /\ hist.calls < MaxCalls
            /\ msg' = r.mb
            /\ last' = [Called("delete_template", r.exc) EXCEPT !.export = export]
            /\ hist' = [hist EXCEPT !.calls = @ + 1, !.exporting = After(@), !.phase = 0]
            /\ UNCHANGED <<wire, fresh, it, cx, infomodel>>
    IN  Deleted(delete_template(msg, tid, export))

ExportEnsureSet(setid) ==
    LET Ensured(r) ==
            /\ hist.calls < MaxCalls
            /\ msg' = r.mb
            /\ last' = Called("export_ensure_set", r.exc)
            /\ hist' = [hist EXCEPT
                          !.calls = @ + 1,
                          !.exporting = After(@),
                          !.phase = IF hist.phase = 2 /\ setid = Tmpl.tid /\ r.exc = ""
                                    THEN 3 ELSE 0]
            /\ UNCHANGED <<wire, fresh, it, cx, infomodel>>
    IN  Ensured(export_ensure_set(msg, setid))

ExportNewSet(setid) ==
    LET Opened(r) ==
            /\ hist.calls < MaxCalls
            /\ msg' = r.mb
            /\ last' = Called("export_new_set", r.exc)
            /\ hist' = [hist EXCEPT !.calls = @ + 1, !.exporting = After(@), !.phase = 0]
            /\ UNCHANGED <<wire, fresh, it, cx, infomodel>>
    IN  Opened(export_new_set(msg, setid))

ExportNamedict(rec) ==
    LET Exported(r) ==
            /\ hist.calls < MaxCalls
            /\ msg' = r.mb
            /\ last' = Called("export_record", r.exc)
            /\ hist' = [hist EXCEPT
                          !.calls = @ + 1,
                          !.exporting = After(@),
                          !.exported[msg.odid] = IF r.exc = "" THEN @ + 1 ELSE @,
                          !.phase = IF hist.phase = 3 THEN 3 ELSE 0,
                          !.sent = IF hist.phase = 3 /\ r.exc = "" THEN Append(@, rec) ELSE @]
            /\ UNCHANGED <<wire, fresh, it, cx, infomodel>>
    IN  Exported(export_namedict(msg, rec))

ToBytes ==
    LET Returned(r) ==
            /\ hist.calls < MaxCalls
            /\ msg' = r.mb
            /\ wire' = IF r.exc = "" THEN r.bytes ELSE wire
            /\ last' = Called("to_bytes", r.exc)
            /\ hist' = [hist EXCEPT
                          !.calls = @ + 1,
                          !.exporting = IF @ = "yes" /\ r.exc = "" THEN "sent" ELSE "no",
                          !.phase = IF hist.phase = 3 /\ r.exc = "" THEN 4 ELSE 0]
            /\ UNCHANGED <<fresh, it, cx, infomodel>>
    IN  Returned(to_bytes(msg))

\* a collector reads the message just returned with a MessageBuffer of its own:
\* m = MessageBuffer(); m.from_bytes(wire); list(m.namedict_iterator())
ReadFresh ==
    LET Iterated(r) ==
            [exc |-> r.exc, recs |-> r.recs, uses |-> r.uses, ielist |-> <<>>]
        Received(f) ==
            IF f.exc # "" THEN [NoIteration EXCEPT !.exc = f.exc]
            ELSE Iterated(namedict_iterator(f.mb))
    IN  /\ last.op = "to_bytes" /\ last.exc = ""
        /\ fresh' = Received(from_bytes(MessageBuffer(MbufSize - 1), wire))
        /\ last' = Called("read_fresh", "")
        /\ UNCHANGED <<msg, wire, hist, it, cx, infomodel>>

Next ==
    \/ \E odid \in Odids : BeginExport(odid)
    \/ \E export \in BOOLEAN : AddTemplate(Tmpl, export)
    \/ \E export \in BOOLEAN : DeleteTemplate(Tmpl.tid, export)
    \/ \E setid \in SetIds : ExportEnsureSet(setid)
    \/ \E setid \in SetIds : ExportNewSet(setid)
    \/ \E rec \in Records : ExportNamedict(rec)
    \/ ToBytes
    \/ ReadFresh

Spec == Init /\ [][Next]_vars

(***************************************************************************)
(* The exporter with an mtu about the size of the message header            *)
(***************************************************************************)

\* msg.mtu as the caller sets it before the first begin_export: one octet
\* less than the message header, the header, one octet more, and the default
HeaderMtus == {MsgHdrSize - 1, MsgHdrSize, MsgHdrSize + 1, MbufSize - 1}

HeaderMtuInit ==
    /\ \E mtu \in HeaderMtus : msg = MessageBuffer(mtu)
    /\ wire = <<>>
    /\ last = NoCall
    /\ hist = HistInit
    /\ fresh = NoIteration
    /\ it = NoIteration
    /\ cx = CodecIdle
    /\ InfomodelLoaded

SpecHeaderMtu == HeaderMtuInit /\ [][Next]_vars

(***************************************************************************)
(* A collector: one MessageBuffer, reading the messages of two exporters    *)
(***************************************************************************)

\* the template of the second exporter, under the same id
Tmpl2 == from_ielist(256, <<IE_sourceTransportPort>>).tmpl

RecP == [n \in {Name("sourceTransportPort")} |-> PyInt(80)]

RECURSIVE ExportAll(_, _)
ExportAll(mb, recs) ==
    IF recs = <<>> THEN mb
    ELSE ExportAll(export_namedict(mb, Head(recs)).mb, Tail(recs))

\* the bytes an exporter sends: msg.begin_export(odid); msg.add_template(tmpl,
\* export); msg.export_ensure_set(tmpl.tid); msg.export_namedict(rec) for each
\* rec; msg.to_bytes()
PeerMessage(odid, tmpl, export, recs) ==
    LET m0 == begin_export(MessageBuffer(MbufSize - 1), odid).mb
        m1 == add_template(m0, tmpl, export).mb
        m2 == export_ensure_set(m1, tmpl.tid).mb
    IN  to_bytes(ExportAll(m2, recs)).bytes

\* the bytes of an exporter that sends its template late: msg.begin_export(odid);
\* msg.add_template(tmpl, False); msg.export_ensure_set(tmpl.tid);
\* msg.export_namedict(rec); msg.export_template(tmpl.tid);
\* msg.export_ensure_set(tmpl.tid); msg.export_namedict(rec); msg.to_bytes()
LatePeerMessage(odid, tmpl, rec) ==
    LET m0 == begin_export(MessageBuffer(MbufSize - 1), odid).mb
        m1 == add_template(m0, tmpl, FALSE).mb
        m2 == export_namedict(export_ensure_set(m1, tmpl.tid).mb, rec).mb
        m3 == export_template(m2, tmpl.tid).mb
        m4 == export_namedict(export_ensure_set(m3, tmpl.tid).mb, rec).mb
    IN  to_bytes(m4).bytes

\* the first exporter sends a message with its template and one without, the
\* second a message with its template and one with the template late
PeerMessages ==
    {PeerMessage(1, Tmpl, TRUE, <<RecA, RecB>>), PeerMessage(1, Tmpl, FALSE, <<RecA>>),
     PeerMessage(2, Tmpl2, TRUE, <<RecP>>), LatePeerMessage(2, Tmpl2, RecP)}

ReadInit ==
    /\ msg = MessageBuffer(MbufSize - 1)
    /\ wire = <<>>
    /\ last = NoCall
    /\ hist = HistInit
    /\ fresh = NoIteration
    /\ it = NoIteration
    /\ cx = CodecIdle
    /\ InfomodelLoaded

\* msg.from_bytes(w) for a message w received
FromBytes(w) ==
    LET Received(r) ==
            /\ hist.calls < MaxCalls
            /\ msg' = r.mb
            /\ wire' = w
            /\ last' = Called("from_bytes", r.exc)
            /\ hist' = [hist EXCEPT !.calls = @ + 1, !.exporting = "no", !.phase = 0]
            /\ UNCHANGED <<fresh, it, cx, infomodel>>
    IN  Received(from_bytes(msg, w))

\* for rec in msg.namedict_iterator(): ...
Iterate ==
    LET Iterated(r) ==
            /\ hist.calls < MaxCalls
            /\ msg' = r.mb
            /\ it' = [exc |-> r.exc, recs |-> r.recs, uses |-> r.uses,
                      ielist |-> <<>>]
            /\ last' = Called("namedict_iterator", r.exc)
            /\ hist' = [hist EXCEPT !.calls = @ + 1, !.exporting = "no", !.phase = 0]
            /\ UNCHANGED <<wire, fresh, cx, infomodel>>
    IN  Iterated(namedict_iterator(msg))

\* the projections of the collector: two InformationElementList objects
ProjPort == IEList(1, <<IE_sourceTransportPort>>)

ProjStart == IEList(2, <<IE_flowStartSeconds>>)

\* for rec in msg.tuple_iterator(L): ...
TupleIterate(L) ==
    LET Iterated(r) ==
            /\ hist.calls < MaxCalls
            /\ msg' = r.mb
            /\ it' = [exc |-> r.exc, recs |-> r.recs, uses |-> r.uses,
                      ielist |-> L.ies]
            /\ last' = Called("tuple_iterator", r.exc)
            /\ hist' = [hist EXCEPT !.calls = @ + 1, !.exporting = "no", !.phase = 0]
            /\ UNCHANGED <<wire, fresh, cx, infomodel>>
    IN  Iterated(tuple_iterator(msg, L))

ReadNext ==
    \/ \E w \in PeerMessages : FromBytes(w)
    \/ Iterate
    \/ \E L \in {ProjPort, ProjStart} : TupleIterate(L)
    \/ AddTemplate(Tmpl, FALSE)
    \/ DeleteTemplate(Tmpl.tid, FALSE)

SpecRead == ReadInit /\ [][ReadNext]_vars

(***************************************************************************)
(* A collector given well-formed and malformed messages                    *)
(***************************************************************************)

\* the caller of this collector makes at most this many calls
MaxReads == 3

\* w with the bytes bs written at offset off
Patch(w, off, bs) ==
    [i \in 1..Len(w) |-> IF i > off /\ i <= off + Len(bs) THEN bs[i - off] ELSE w[i]]

\* a well-formed message of domain 1: a template set, then a data set
GoodMessage == PeerMessage(1, Tmpl, TRUE, <<RecA>>)

\* the same message with a set of the reserved id 4 between the two:
\* msg.export_new_set(4) before msg.export_ensure_set(tmpl.tid)
ReservedSetMessage ==
    LET m0 == begin_export(MessageBuffer(MbufSize - 1), 1).mb
        m1 == add_template(m0, Tmpl, TRUE).mb
        m2 == export_new_set(m1, 4).mb
        m3 == export_ensure_set(m2, Tmpl.tid).mb
    IN  to_bytes(export_namedict(m3, RecA).mb).bytes

\* a message of domain odid with one template set, holding the template
\* record (tid, field count 0)
WithdrawalMessage(odid, tid) ==
    MsgHdrBytes(MsgHdrSize + SetHdrSize + TmplHdrSize, 0, utcnow, odid)
        \o U16(TEMPLATE_SET_ID) \o U16(SetHdrSize + TmplHdrSize)
        \o U16(tid) \o U16(0)

\* the messages of test_message_read_errors: version 0x0102, length 17, a
\* first set length of 1 and of 65535, cut to 12 and to 33 bytes; and a first
\* set length of 0
MalformedMessages ==
    {Patch(GoodMessage, 0, <<1, 2>>),
     Patch(GoodMessage, 2, U16(17)),
     Patch(GoodMessage, MsgHdrSize + 2, U16(1)),
     Patch(GoodMessage, MsgHdrSize + 2, U16(0)),
     Patch(GoodMessage, MsgHdrSize + 2, U16(65535)),
     SubSeq(GoodMessage, 1, 12),
     SubSeq(GoodMessage, 1, 33)}

DeframeMessages ==
    {GoodMessage, PeerMessage(1, Tmpl, FALSE, <<RecA>>), ReservedSetMessage,
     WithdrawalMessage(1, Tmpl.tid)} \cup MalformedMessages

\* msg.read_message(stream) for a stream that holds w
ReadMessage(w) ==
    LET Received(r) ==
            /\ hist.calls < MaxCalls
            /\ msg' = r.mb
            /\ wire' = w
            /\ last' = Called("read_message", r.exc)
            /\ hist' = [hist EXCEPT !.calls = @ + 1, !.exporting = "no", !.phase = 0]
            /\ UNCHANGED <<fresh, it, cx, infomodel>>
    IN  Received(read_message(msg, w))

\* a call that never returns is the last the caller makes; the buffer that
\* read a message is reused to export one
DeframeNext ==
    /\ last.exc # "NoReturn"
    /\ hist.calls < MaxReads
    /\ \/ \E w \in DeframeMessages : FromBytes(w)
       \/ \E w \in DeframeMessages : ReadMessage(w)
       \/ Iterate
       \/ \E odid \in Odids : BeginExport(odid)

SpecDeframe == ReadInit /\ [][DeframeNext]_vars

(***************************************************************************)
(* An exporter of records with a reduced-length IE                         *)
(***************************************************************************)

\* the templates of mktest_template's kind: one unsigned IE, specialised
\* as by ie.for_spec("octetDeltaCount[4]")
RleIEs ==
    {IEForLength(IE_octetDeltaCount, 4).ie, IEForLength(IE_octetDeltaCount, 2).ie,
     IEForLength(IE_octetDeltaCount, 1).ie, IEForLength(IE_sourceTransportPort, 1).ie}

\* the values exported: around 2^8 and 2^16, and the largest below 2^31
RleValues == {0, 255, 256, 65535, 65536, 2147483647}

\* the record of the value v for the IE e
RleRecord(e, v) == [n \in {e.name} |-> PyInt(v)]

RleInit ==
    /\ msg = MessageBuffer(MbufSize - 1)
    /\ wire = <<>>
    /\ last = NoCall
    /\ hist = HistInit
    /\ fresh = NoIteration
    /\ it = NoIteration
    /\ \E e \in RleIEs : \E v \in RleValues : cx = [ie |-> e, v |-> v]
    /\ InfomodelLoaded

RleNext ==
    \/ BeginExport(1)
    \/ AddTemplate(from_ielist(Tmpl.tid, <<cx.ie>>).tmpl, TRUE)
    \/ ExportEnsureSet(Tmpl.tid)
    \/ ExportNamedict(RleRecord(cx.ie, cx.v))
    \/ ToBytes
    \/ ReadFresh

SpecRle == RleInit /\ [][RleNext]_vars

(***************************************************************************)
(* The information model: types, Information Elements and their registry   *)
(***************************************************************************)

\* the lengths a caller asks for run up to this one, besides the natural
\* lengths of the types
MaxLength == 8

Lengths == 0..MaxLength \cup {t.length : t \in _Types}

\* the IESpecs a client hands to for_spec: names alone and with a length,
\* a line of iana.iespec, registrations of enterprise-specific IEs under
\* new and under registered names and numbers, and specs that lack what a
\* registration needs
IESpecs ==
    {<<>>,
     <<"sourceTransportPort">>,
     <<"sourceTransportPort", "[", "1", "]">>,
     <<"sourceTransportPort", "<", "nosuchtype", ">">>,
     <<"octetDeltaCount", "(", "1", ")", "<", "unsigned64", ">", "[", "8", "]">>,
     <<"octetDeltaCount", "[", "4", "]">>,
     <<"testString", "(", "35566", "/", "32766", ")", "<", "string", ">">>,
     <<"otherString", "(", "35566", "/", "32766", ")", "<", "unsigned8", ">">>,
     <<"testString", "(", "35566", "/", "1", ")", "<", "string", ">">>,
     <<"nosuch">>,
     <<"nosuch", "[", "4", "]">>,
     <<"nosuch", "(", "35566", "/", "2", ")", "<", "nosuchtype", ">">>,
     <<"(", "0", "/", "7", ")", "[", "3", "]">>,
     <<"(", "9", ")", "<", "unsigned32", ">", "[", "2", "]">>,
     <<"zeroth", "(", "35566", "/", "0", ")", "<", "string", ">">>,
     <<"naught", "(", "35566", "/", "0", ")", "<", "unsigned8", ">">>}

\* the template entries a collector meets: (pen, num) and a length
TemplateEntries ==
    {<<0, 7>>, <<0, 99>>, <<35566, 32766>>} \X {1, 2, VARLEN}

IEInit ==
    /\ MsgIdle
    /\ InfomodelLoaded
    /\ cx = [op |-> "", arg |-> <<>>, res |-> [exc |-> ""]]

\* ie.for_spec(spec)
ForSpec(spec) ==
    LET Returned(r) ==
            /\ _ieForName' = r.ieForName
            /\ _ieForNum' = r.ieForNum
            /\ cx' = [op |-> "for_spec", arg |-> spec,
                      res |-> [exc |-> r.exc, ie |-> r.ie]]
    IN  Returned(for_spec(_ieForName, _ieForNum, spec))

\* ie.for_template_entry(pen, num, length)
ForTemplateEntry(pen, num, length) ==
    LET Returned(r) ==
            /\ _ieForName' = r.ieForName
            /\ _ieForNum' = r.ieForNum
            /\ cx' = [op |-> "for_template_entry", arg |-> <<pen, num, length>>,
                      res |-> [exc |-> r.exc, ie |-> r.ie]]
    IN  Returned(for_template_entry_in(_ieForName, _ieForNum, pen, num, length))

IENext ==
    /\ \/ \E spec \in IESpecs : ForSpec(spec)
       \/ \E e \in TemplateEntries : ForTemplateEntry(e[1][1], e[1][2], e[2])
    /\ UNCHANGED msgvars

SpecIE == IEInit /\ [][IENext]_vars

(***************************************************************************)
(* Functions of types.py, ie.py and template.py, applied to drawn inputs   *)
(***************************************************************************)

\* the IEs of the templates drawn: those of the registry, two of them at a
\* reduced length as well, and an enterprise-specific IE that is not
\* registered
TemplateIEs ==
    Registry \cup {IEForLength(IE_octetDeltaCount, 4).ie,
                   IEForLength(IE_sourceTransportPort, 1).ie,
                   InformationElement(NoName, 35566, 99, T_octetArray, 4).ie}

\* the templates drawn: Template(tid, ielist) for data templates (scope
\* count 0) and options templates of up to MaxIEs IEs
CodecTemplates ==
    {[AppendAll(Template(tid).tmpl, ielist) EXCEPT !.scopecount = sc] :
        tid \in {256, 65535}, sc \in {0, 1},
        ielist \in UNION {InjSeqs(TemplateIEs, n) : n \in 1..MaxIEs}}

\* the calls drawn: t.for_length(n) for a builtin type t, e.for_length(n)
\* for an IE e, encode_varlen(buf, n, x) for every length x a varlen field
\* can have, and t.encode_template_to(buf, n, t.native_setid()) for a
\* template t
FunctionCalls ==
    [f : {"type.for_length"}, x : _Types, n : Lengths]
        \cup [f : {"ie.for_length"}, x : Registry, n : Lengths]
        \cup [f : {"varlen"}, x : 0..VARLEN, n : {0, 2}]
        \cup [f : {"template"}, x : CodecTemplates, n : {0, 2}]

FunctionInit ==
    /\ MsgIdle
    /\ InfomodelLoaded
    /\ \E a \in FunctionCalls : cx = [op |-> "", arg |-> a, res |-> [exc |-> ""]]

\* t.for_length(n)
TypeForLengthCall ==
    /\ cx.op = ""
    /\ cx.arg.f = "type.for_length"
    /\ cx' = [cx EXCEPT !.op = cx.arg.f, !.res = TypeForLength(cx.arg.x, cx.arg.n)]

\* e.for_length(n).for_length(e.length); the second call is made when the
\* first returns
ForLengthAndBack ==
    /\ cx.op = ""
    /\ cx.arg.f = "ie.for_length"
    /\ LET Back(first, back) ==
               cx' = [cx EXCEPT !.op = cx.arg.f,
                         !.res = [exc |-> first.exc, ie |-> first.ie, back |-> back]]
           First(r) ==
               Back(r, IF r.exc = "" THEN IEForLength(r.ie, cx.arg.x.length) ELSE r)
       IN  First(IEForLength(cx.arg.x, cx.arg.n))

\* encode_varlen into an empty buffer, then decode_varlen of what it wrote
VarlenRoundTrip ==
    /\ cx.op = ""
    /\ cx.arg.f = "varlen"
    /\ LET Encoded(e) ==
               cx' = [cx EXCEPT !.op = cx.arg.f,
                         !.res = [exc |-> e.exc, enc |-> e,
                                  dec |-> decode_varlen(e.buf, cx.arg.n)]]
       IN  Encoded(encode_varlen(CodecBuf, cx.arg.n, cx.arg.x))

\* encode_template_to into an empty buffer, then decode_template_from of
\* what it wrote
TemplateRoundTrip ==
    /\ cx.op = ""
    /\ cx.arg.f = "template"
    /\ LET setid == native_setid(cx.arg.x)
           Encoded(e) ==
               cx' = [cx EXCEPT !.op = cx.arg.f,
                         !.res = [exc |-> e.exc, enc |-> e,
                                  dec |-> decode_template_from(e.buf, cx.arg.n, setid)]]
       IN  Encoded(encode_template_to(cx.arg.x, MessageBuffer(MbufSize - 1).mbuf,
                                      cx.arg.n, setid))

FunctionNext ==
    (TypeForLengthCall \/ ForLengthAndBack \/ VarlenRoundTrip \/ TemplateRoundTrip)
        /\ UNCHANGED <<msgvars, infomodel>>

SpecFunctions == FunctionInit /\ [][FunctionNext]_vars

(***************************************************************************)
(* writer.py: MessageStreamWriter, and a collector reading its stream       *)
(***************************************************************************)

\* MessageBuffer.export_needs_flush
export_needs_flush(mb) ==
    IF mb.length <= MsgHdrSize + SetHdrSize THEN FALSE ELSE TRUE

\* MessageBuffer.export_tuple, without an ielist: the tuple is in template order
export_tuple(mb, rec) == export_record(mb, rec, "tuple", <<>>)

\* MessageStreamWriter(stream, mtu): the attributes of the object, with the
\* bytes written to the stream so far; curtid is missing (None) until
\* set_export_template
MessageStreamWriter(stream, mtu) ==
    [stream |-> stream, msg |-> MessageBuffer(mtu), msgcount |-> 0, curtid |-> None]

\* MessageBuffer.write_message on the writer's stream: [exc, w]
write_message(w) ==
    LET Written(r) ==
            IF r.exc # "" THEN [exc |-> r.exc, w |-> [w EXCEPT !.msg = r.mb]]
            ELSE [exc |-> "", w |-> [w EXCEPT !.msg = r.mb, !.stream = @ \o r.bytes]]
    IN  Written(to_bytes(w.msg))

\* not the code: a flush that writes the message and goes on in the same one
flush_without_begin(w) ==
    LET setid == w.msg.cursetid
        Ensured(w1, r) == [exc |-> r.exc, w |-> [w1 EXCEPT !.msg = r.mb]]
        Written(r) ==
            IF r.exc # "" THEN r
            ELSE Ensured([r.w EXCEPT !.msgcount = @ + 1],
                         export_ensure_set(r.w.msg, setid))
    IN  Written(write_message(w))

\* MessageStreamWriter.flush: [exc, w]
flush(w) ==
    LET setid == w.msg.cursetid
        Ensured(w1, r) == [exc |-> r.exc, w |-> [w1 EXCEPT !.msg = r.mb]]
        Begun(w1, r) ==
            IF r.exc # "" THEN [exc |-> r.exc, w |-> [w1 EXCEPT !.msg = r.mb]]
            ELSE Ensured(w1, export_ensure_set(r.mb, setid))
        Written(r) ==
            IF r.exc # "" THEN r
            ELSE Begun([r.w EXCEPT !.msgcount = @ + 1], begin_export(r.w.msg, 0))
    IN  Written(write_message(w))

\* fn(self.msg, arg), for the methods of MessageBuffer the writer retries,
\* named by fn: [exc, mb]
CallFn(fn, mb, arg) ==
    CASE fn = "export_ensure_set" -> export_ensure_set(mb, arg)
      [] fn = "export_namedict" -> export_namedict(mb, arg)
      [] OTHER -> export_tuple(mb, arg)

\* MessageStreamWriter._retry_after_flush: [exc, w, retried]
_retry_after_flush(w, fn, arg) ==
    LET Again(w1, r) ==
            [exc |-> r.exc, w |-> [w1 EXCEPT !.msg = r.mb], retried |-> TRUE]
        Flushed(f) ==
            IF f.exc # "" THEN [exc |-> f.exc, w |-> f.w, retried |-> TRUE]
            ELSE Again(f.w, CallFn(fn, f.w.msg, arg))
        Tried(r) ==
            IF r.exc = "EndOfMessage" THEN Flushed(flush([w EXCEPT !.msg = r.mb]))
            ELSE [exc |-> r.exc, w |-> [w EXCEPT !.msg = r.mb], retried |-> FALSE]
    IN  Tried(CallFn(fn, w.msg, arg))

\* MessageStreamWriter.set_domain: [exc, w]
set_domain(w, odid) ==
    LET Begun(w1, r) == [exc |-> r.exc, w |-> [w1 EXCEPT !.msg = r.mb]]
        Flushed(r) ==
            IF r.exc # "" THEN r ELSE Begun(r.w, begin_export(r.w.msg, odid))
    IN  IF export_needs_flush(w.msg) THEN Flushed(write_message(w))
        ELSE Begun(w, begin_export(w.msg, odid))

\* MessageStreamWriter.set_export_template: [exc, w, retried]
set_export_template(w, tid) ==
    _retry_after_flush([w EXCEPT !.curtid = tid], "export_ensure_set", tid)

\* MessageStreamWriter.export_namedict and export_tuple: [exc, w, retried];
\* fn is the method of MessageBuffer that exports the record
writer_export(w, rec, fn) ==
    LET Exported(e, r) == [r EXCEPT !.retried = @ \/ e.retried]
        Ensured(e) ==
            IF e.exc # "" THEN e ELSE Exported(e, _retry_after_flush(e.w, fn, rec))
    IN  IF w.curtid = None
        THEN [exc |-> "AttributeError", w |-> w, retried |-> FALSE]
        ELSE Ensured(_retry_after_flush(w, "export_ensure_set", w.curtid))

\* the mtu the caller gives the writer: a message holds the template set of
\* Tmpl and a set with one of the records, or a set with four of them
WriterMtu == 46

\* the record as a tuple in the order of the template
TupleOf(rec) == [i \in 1..Len(Tmpl.ies) |-> rec[Tmpl.ies[i].name]]

WriterRecords == {RecA, RecB}

WriterIdle == [curtid |-> None, msgcount |-> 0, retried |-> FALSE]

WriterInit ==
    /\ msg = MessageStreamWriter(<<>>, WriterMtu).msg
    /\ wire = <<>>
    /\ last = NoCall
    /\ hist = HistInit
    /\ fresh = NoIteration
    /\ it = NoIteration
    /\ cx = WriterIdle
    /\ InfomodelLoaded

\* the writer object in the state: its message buffer is msg, its stream wire
Writer == [stream |-> wire, msg |-> msg, msgcount |-> cx.msgcount, curtid |-> cx.curtid]

\* hist.sent holds the records of the export calls that returned
WriterCalled(op, r, retried, sent) ==
    /\ hist.calls < MaxCalls
    /\ msg' = r.w.msg
    /\ wire' = r.w.stream
    /\ cx' = [curtid |-> r.w.curtid, msgcount |-> r.w.msgcount, retried |-> retried]
    /\ last' = Called(op, r.exc)
    /\ hist' = [hist EXCEPT !.calls = @ + 1, !.sent = @ \o sent]
    /\ UNCHANGED <<fresh, it, infomodel>>

SetDomain(odid) ==
    LET Returned(r) == WriterCalled("set_domain", r, FALSE, <<>>)
    IN  Returned(set_domain(Writer, odid))

WriterAddTemplate(tmpl) ==
    LET Returned(r) ==
            WriterCalled("add_template", [exc |-> r.exc, w |-> [Writer EXCEPT !.msg = r.mb]],
                         FALSE, <<>>)
    IN  Returned(add_template(msg, tmpl, TRUE))

SetExportTemplate(tid) ==
    LET Returned(r) == WriterCalled("set_export_template", r, r.retried, <<>>)
    IN  Returned(set_export_template(Writer, tid))

WriterExportNamedict(rec) ==
    LET Returned(r) ==
            WriterCalled("export_namedict", r, r.retried,
                         IF r.exc = "" THEN <<rec>> ELSE <<>>)
    IN  Returned(writer_export(Writer, rec, "export_namedict"))

WriterExportTuple(rec) ==
    LET Returned(r) ==
            WriterCalled("export_tuple", r, r.retried,
                         IF r.exc = "" THEN <<rec>> ELSE <<>>)
    IN  Returned(writer_export(Writer, TupleOf(rec), "export_tuple"))

Flush ==
    LET Returned(r) == WriterCalled("flush", r, FALSE, <<>>)
    IN  Returned(flush(Writer))

WriterNext ==
    \/ SetDomain(1)
    \/ WriterAddTemplate(Tmpl)
    \/ SetExportTemplate(Tmpl.tid)
    \/ \E rec \in WriterRecords : WriterExportNamedict(rec)
    \/ \E rec \in WriterRecords : WriterExportTuple(rec)
    \/ Flush

SpecWriter == WriterInit /\ [][WriterNext]_vars

(***************************************************************************)
(* v9pdu.py: PduBuffer and StreamPduBuffer, reading a NetFlow V9 stream      *)
(***************************************************************************)

NETFLOW9_VERSION == 9

\* _pduhdr_st.size
PduHdrSize == 20

\* an attribute the object does not have
Missing == -2

\* PduBuffer(): __init__ assigns neither streamid nor basetime_epoch
PduBuffer ==
    [mbuf |-> [i \in 0..(MbufSize - 1) |-> 0], length |-> 0, cur |-> 0,
     reccount |-> None, sequence |-> None, export_epoch |-> None,
     base_epoch |-> None, sysuptime_ms |-> None, odid |-> 0,
     templates |-> EmptyDict, accepted_tids |-> {}, sequences |-> EmptyDict,
     last_tuple_iterator_ielist |-> None,
     streamid |-> Missing, basetime_epoch |-> Missing]

\* PduBuffer._increment_sequence: [exc, pb]
PduBuffer_increment_sequence(pb, inc) ==
    IF pb.streamid = Missing THEN [exc |-> "AttributeError", pb |-> pb]
    ELSE [exc |-> "",
          pb |-> [pb EXCEPT !.sequences =
                     DictSet(@, <<pb.odid, pb.streamid>>,
                             (IF <<pb.odid, pb.streamid>> \in DOMAIN @
                              THEN @[<<pb.odid, pb.streamid>>] ELSE 0) + inc)]]

\* PduBuffer.parse_pdu_header: [exc, pb].  basetime_epoch is export_epoch -
\* sysuptime_ms / 1000, a float, kept here in milliseconds.
parse_pdu_header(pb) ==
    LET Counted(r) ==
            IF r.exc # "" THEN r
            ELSE [exc |-> "",
                  pb |-> [r.pb EXCEPT !.basetime_epoch =
                             r.pb.export_epoch * 1000 - r.pb.sysuptime_ms]]
        Unpacked(version, p1) ==
            IF version # NETFLOW9_VERSION THEN [exc |-> "IpfixDecodeError", pb |-> p1]
            ELSE Counted(PduBuffer_increment_sequence(p1, p1.reccount))
    IN  Unpacked(Get16(pb.mbuf, 0),
                 [pb EXCEPT !.reccount = Get16(pb.mbuf, 2),
                            !.sysuptime_ms = Get32(pb.mbuf, 4),
                            !.export_epoch = Get32(pb.mbuf, 8),
                            !.sequence = Get32(pb.mbuf, 12),
                            !.odid = Get32(pb.mbuf, 16)])

\* StreamPduBuffer.next_set: [exc, pb, stream], for a stream that holds the
\* bytes `stream` and then ends.  A read that returns fewer bytes than the
\* slice of mbuf it is assigned to is a ValueError; the PDU header is handed to
\* parse_pdu_header(), a name that is not defined in the module (the method is
\* self.parse_pdu_header); the body of a set is read with
\* stream.read(setlen, 4), which a stream's read(size) does not take.
next_set(pb, stream) ==
    LET Rest(n) == SubSeq(stream, n + 1, Len(stream))
        Header(p1) ==
            IF Len(stream) < PduHdrSize
            THEN [exc |-> "ValueError", pb |-> p1, stream |-> <<>>]
            ELSE [exc |-> "NameError",
                  pb |-> [p1 EXCEPT !.mbuf = Put(@, SetHdrSize,
                                                SubSeq(stream, SetHdrSize + 1, PduHdrSize))],
                  stream |-> Rest(PduHdrSize)]
        SetHeader(p1) ==
            IF Get16(p1.mbuf, 0) = NETFLOW9_VERSION THEN Header(p1)
            ELSE [exc |-> "TypeError", pb |-> p1, stream |-> Rest(SetHdrSize)]
    IN  IF Len(stream) < SetHdrSize
        THEN [exc |-> "ValueError", pb |-> pb, stream |-> <<>>]
        ELSE SetHeader([pb EXCEPT !.mbuf = Put(@, 0, SubSeq(stream, 1, SetHdrSize))])

\* PduBuffer.record_iterator of a StreamPduBuffer, run to exhaustion:
\* [exc, pb, stream, recs].  Only EOFError from next_set ends the loop; a set
\* that next_set returned is compared with template.V9_TEMPLATE_SET_ID, an
\* attribute the template module does not have.
PduBuffer_record_iterator(pb, stream) ==
    LET Got(r) ==
            IF r.exc = "EOFError"
            THEN [exc |-> "", pb |-> r.pb, stream |-> r.stream, recs |-> <<>>]
            ELSE IF r.exc # ""
            THEN [exc |-> r.exc, pb |-> r.pb, stream |-> r.stream, recs |-> <<>>]
            ELSE [exc |-> "AttributeError", pb |-> r.pb, stream |-> r.stream,
                  recs |-> <<>>]
    IN  Got(next_set(pb, stream))

\* a PDU: the header, a template flowset for template 256 with the one IE
\* sourceTransportPort, and a data flowset with the records of the ports
PduHeader(version, reccount, sysuptime_ms, export_epoch, sequence, odid) ==
    U16(version) \o U16(reccount) \o U32(sysuptime_ms) \o U32(export_epoch)
        \o U32(sequence) \o U32(odid)

RECURSIVE PortRecords(_)
PortRecords(ports) ==
    IF ports = <<>> THEN <<>> ELSE U16(Head(ports)) \o PortRecords(Tail(ports))

Pdu(version, sysuptime_ms, sequence, odid, ports) ==
    PduHeader(version, Len(ports), sysuptime_ms, utcnow, sequence, odid)
        \o U16(0) \o U16(12) \o U16(256) \o U16(1) \o U16(7) \o U16(2)
        \o U16(256) \o U16(SetHdrSize + 2 * Len(ports)) \o PortRecords(ports)

PduPorts == {<<>>, <<80>>, <<80, 443>>}

\* the streams a collector attaches: PDUs of version 9, one of version 10, a
\* stream that starts with a flowset, a truncated header and an empty stream
PduStreams ==
    {Pdu(9, up, seq, odid, ports) :
        up \in {0, 1500}, seq \in {0, 7}, odid \in {0, 1}, ports \in PduPorts}
    \cup {Pdu(10, 0, 0, 1, <<80>>),
          SubSeq(Pdu(9, 0, 0, 1, <<80>>), PduHdrSize + 1, PduHdrSize + 18),
          SubSeq(Pdu(9, 0, 0, 1, <<80>>), 1, 10),
          <<>>}

\* the number of records the header of the stream's first PDU declares
DeclaredCount(stream) == stream[3] * 256 + stream[4]

IsPdu(stream) == Len(stream) >= PduHdrSize /\ stream[1] * 256 + stream[2] = NETFLOW9_VERSION

NoPduCall == [exc |-> "", recs |-> <<>>, before |-> EmptyDict]

PduInit ==
    /\ msg = MessageBuffer(MbufSize - 1)
    /\ \E stream \in PduStreams : wire = stream
    /\ last = NoCall
    /\ hist = HistInit
    /\ fresh = NoIteration
    /\ it = NoIteration
    /\ cx = [pb |-> PduBuffer, stream |-> wire, op |-> "", res |-> NoPduCall]
    /\ InfomodelLoaded

\* the caller gives the buffer the attribute that _increment_sequence reads
PduSetStreamid(streamid) ==
    /\ cx.op = ""
    /\ cx.pb.streamid = Missing
    /\ cx' = [cx EXCEPT !.pb.streamid = streamid]

\* the caller copies the header of a packet into the buffer and parses it:
\* pb.mbuf[0:20] = packet[0:20]; pb.parse_pdu_header()
PduParseHeader ==
    LET Parsed(r) ==
            cx' = [cx EXCEPT !.pb = r.pb, !.op = "parse_pdu_header",
                             !.res = [exc |-> r.exc, recs |-> <<>>,
                                      before |-> cx.pb.sequences]]
    IN  /\ cx.op = ""
        /\ Len(wire) >= PduHdrSize
        /\ Parsed(parse_pdu_header(
                     [cx.pb EXCEPT !.mbuf = Put(@, 0, SubSeq(wire, 1, PduHdrSize))]))

\* list(pb.namedict_iterator()) on a StreamPduBuffer attached to the stream
PduIterate ==
    LET Iterated(r) ==
            cx' = [cx EXCEPT !.pb = r.pb, !.stream = r.stream, !.op = "namedict_iterator",
                             !.res = [exc |-> r.exc, recs |-> r.recs,
                                      before |-> cx.pb.sequences]]
    IN  /\ cx.op # "namedict_iterator"
        /\ Iterated(PduBuffer_record_iterator(cx.pb, cx.stream))

PduNext ==
    (\/ \E streamid \in {0, 1} : PduSetStreamid(streamid)
     \/ PduParseHeader
     \/ PduIterate)
        /\ UNCHANGED <<msgvars, infomodel>>

SpecPdu == PduInit /\ [][PduNext]_vars

(***************************************************************************)
(* A template built by appending one IE after the other                     *)
(***************************************************************************)

\* the number of IEs a caller appends
MaxAppends == 4

\* the IEs appended: fixed-length ones, IANA and enterprise-specific, and two
\* variable-length ones
AppendIEs ==
    {IE_protocolIdentifier, IE_sourceTransportPort, IE_testString,
     InformationElement(NoName, 35566, 98, T_octetArray, VARLEN).ie,
     InformationElement(NoName, 35566, 99, T_octetArray, 4).ie}

AppendInit ==
    /\ MsgIdle
    /\ InfomodelLoaded
    /\ \E tid \in {256, 65535} : cx = [op |-> "", tmpl |-> Template(tid).tmpl]

\* tmpl.append(ie)
AppendCall(ie) ==
    /\ Len(cx.tmpl.ies) < MaxAppends
    /\ cx' = [op |-> "append", tmpl |-> TemplateAppend(cx.tmpl, ie)]
    /\ UNCHANGED <<msgvars, infomodel>>

AppendNext == \E ie \in AppendIEs : AppendCall(ie)

SpecAppend == AppendInit /\ [][AppendNext]_vars

(***************************************************************************)
(* Records with long variable-length values                                 *)
(***************************************************************************)

\* the longest payload of a variable-length value (65535 in the program)
MaxPayload == 300

\* payload lengths on both sides of 255, where the length prefix grows from
\* one byte to three
PayloadLengths == {0, 1, 254, 255, 256, MaxPayload}

\* a buffer that holds a record of two payloads of MaxPayload bytes
LongBuf == [i \in 0..(15 + 2 * (MaxPayload + 3)) |-> 0]

IE_octets == InformationElement(NoName, 35566, 98, T_octetArray, VARLEN).ie

IE_moreOctets == InformationElement(NoName, 35566, 97, T_octetArray, VARLEN).ie

\* templates with one and two variable-length IEs after a fixed one, with a
\* fixed IE after the variable-length one, and with fixed IEs only
LongTemplates ==
    {from_ielist(256, ielist).tmpl :
        ielist \in {<<IE_sourceTransportPort, IE_octets>>,
                    <<IE_sourceTransportPort, IE_octets, IE_moreOctets>>,
                    <<IE_flowStartSeconds, IE_octets, IE_protocolIdentifier>>,
                    <<IE_sourceTransportPort, IE_testString, IE_octets>>,
                    <<IE_sourceTransportPort, IE_protocolIdentifier>>}}

\* the values of an IE: for a variable-length octetArray a bytes object of
\* each payload length, for a string "" and "ü"
LongValues(ie) ==
    CASE ie.type.name = "octetArray" ->
            {PyBytes([i \in 1..n |-> 1]) : n \in PayloadLengths}
      [] ie.type.name = "string" -> {PyStr(<<>>), PyStr(<<252>>)}
      [] ie.type.name = "dateTimeSeconds" -> {DateTime(66000, 0)}
      [] OTHER -> {PyInt(7)}

RECURSIVE LongValsFor(_)
LongValsFor(ielist) ==
    IF ielist = <<>> THEN {<<>>}
    ELSE {<<v>> \o r : v \in LongValues(Head(ielist)), r \in LongValsFor(Tail(ielist))}

LongInit ==
    /\ MsgIdle
    /\ InfomodelLoaded
    /\ \E t \in LongTemplates : \E vals \in LongValsFor(t.ies) : \E offset \in {0, 2} :
          cx = [op |-> "", t |-> t, vals |-> vals, offset |-> offset,
                res |-> [exc |-> "", offset |-> 0]]

\* t.encode_to(buf, offset, vals)
LongEncode ==
    LET Encoded(e) ==
            cx' = [cx EXCEPT !.op = "encode_to",
                             !.res = [exc |-> e.exc, offset |-> e.offset]]
    IN  /\ cx.op = ""
        /\ Encoded(encode_to(cx.t, LongBuf, cx.offset, cx.vals, NonePlan))
        /\ UNCHANGED <<msgvars, infomodel>>

LongNext == LongEncode

SpecLong == LongInit /\ [][LongNext]_vars

(***************************************************************************)
(* A collector that keeps track of where its templates came from            *)
(***************************************************************************)

RecQ == [n \in {Name("sourceTransportPort")} |-> PyInt(443)]

\* the bytes of an exporter whose template set lies between two data sets:
\* msg.begin_export(odid); msg.add_template(tmpl, False);
\* msg.export_ensure_set(tmpl.tid); msg.export_namedict(early);
\* msg.export_template(tmpl.tid); msg.export_ensure_set(tmpl.tid);
\* msg.export_namedict(late); msg.to_bytes()
LateTemplateMessage(odid, tmpl, early, late) ==
    LET m0 == begin_export(MessageBuffer(MbufSize - 1), odid).mb
        m1 == add_template(m0, tmpl, FALSE).mb
        m2 == export_namedict(export_ensure_set(m1, tmpl.tid).mb, early).mb
        m3 == export_template(m2, tmpl.tid).mb
        m4 == export_namedict(export_ensure_set(m3, tmpl.tid).mb, late).mb
    IN  to_bytes(m4).bytes

LateMessages ==
    {PeerMessage(1, Tmpl, TRUE, <<RecA, RecB>>), PeerMessage(1, Tmpl, FALSE, <<RecB>>),
     PeerMessage(2, Tmpl2, TRUE, <<RecP>>), LateTemplateMessage(2, Tmpl2, RecP, RecQ)}

\* cx.known is the template store as it was when the message in the buffer
\* was received, with the templates added through add_template since;
\* cx.iterations counts the iterations over the message in the buffer
LateInit ==
    /\ msg = MessageBuffer(MbufSize - 1)
    /\ wire = <<>>
    /\ last = NoCall
    /\ hist = HistInit
    /\ fresh = NoIteration
    /\ it = NoIteration
    /\ cx = [known |-> EmptyDict, iterations |-> 0]
    /\ InfomodelLoaded

\* msg.from_bytes(w)
LateFromBytes(w) ==
    LET Received(r) ==
            /\ hist.calls < MaxCalls
            /\ msg' = r.mb
            /\ wire' = w
            /\ last' = Called("from_bytes", r.exc)
            /\ hist' = [hist EXCEPT !.calls = @ + 1]
            /\ cx' = [known |-> msg.templates, iterations |-> 0]
            /\ UNCHANGED <<fresh, it, infomodel>>
    IN  Received(from_bytes(msg, w))

\* msg.add_template(tmpl, export = False)
LateAddTemplate(tmpl) ==
    LET Added(r) ==
            /\ hist.calls < MaxCalls
            /\ msg' = r.mb
            /\ last' = Called("add_template", r.exc)
            /\ hist' = [hist EXCEPT !.calls = @ + 1]
            /\ cx' = [cx EXCEPT !.known = DictSet(@, <<msg.odid, tmpl.tid>>, tmpl)]
            /\ UNCHANGED <<wire, fresh, it, infomodel>>
    IN  Added(add_template(msg, tmpl, FALSE))

\* list(msg.namedict_iterator())
LateIterate ==
    LET Iterated(r) ==
            /\ hist.calls < MaxCalls
            /\ msg' = r.mb
            /\ it' = [exc |-> r.exc, recs |-> r.recs, uses |-> r.uses,
                      ielist |-> <<>>]
            /\ last' = Called("namedict_iterator", r.exc)
            /\ hist' = [hist EXCEPT !.calls = @ + 1]
            /\ cx' = [cx EXCEPT !.iterations = @ + 1]
            /\ UNCHANGED <<wire, fresh, infomodel>>
    IN  Iterated(namedict_iterator(msg))

\* list(msg.tuple_iterator(L))
LateTupleIterate(L) ==
    LET Iterated(r) ==
            /\ hist.calls < MaxCalls
            /\ msg' = r.mb
            /\ it' = [exc |-> r.exc, recs |-> r.recs, uses |-> r.uses,
                      ielist |-> L.ies]
            /\ last' = Called("tuple_iterator", r.exc)
            /\ hist' = [hist EXCEPT !.calls = @ + 1]
            /\ cx' = [cx EXCEPT !.iterations = @ + 1]
            /\ UNCHANGED <<wire, fresh, infomodel>>
    IN  Iterated(tuple_iterator(msg, L))

LateNext ==
    \/ \E w \in LateMessages : LateFromBytes(w)
    \/ \E tmpl \in {Tmpl, Tmpl2} : LateAddTemplate(tmpl)
    \/ LateIterate
    \/ LateTupleIterate(ProjPort)

SpecLate == LateInit /\ [][LateNext]_vars

(***************************************************************************)
(* record_iterator as the generator it is, resumed one record at a time     *)
(***************************************************************************)

\* the generator object that msg.namedict_iterator() returns: nothing of its
\* body has run ("created"); sets is the part of self.setlist the for loop
\* has still to visit and, inside the record loop of a data set (inset),
\* offset, setend and tmpl are the loop's variables; at is the offset at
\* which the record yielded last began
NewGenerator(mb) ==
    [state |-> "created", sets |-> mb.setlist, inset |-> FALSE, offset |-> 0,
     setend |-> 0, tmpl |-> NoneTmpl, at |-> 0]

NoRecord == <<>>

\* the body of record_iterator from where it stands to its next yield, its
\* return or an exception: [exc, mb, gen, rec, stop]
RECURSIVE RunGenerator(_, _)
RunGenerator(mb, g) ==
    LET Raised(exc, m1) ==
            [exc |-> exc, mb |-> m1, gen |-> [g EXCEPT !.state = "done"],
             rec |-> NoRecord, stop |-> FALSE]
        Yield(d) ==
            IF d.exc # "" THEN Raised(d.exc, mb)
            ELSE [exc |-> "", mb |-> mb,
                  gen |-> [g EXCEPT !.state = "suspended", !.at = g.offset,
                                   !.offset = d.offset],
                  rec |-> d.rec, stop |-> FALSE]
        Learned(r) ==
            IF r.exc # "" THEN Raised(r.exc, r.mb)
            ELSE RunGenerator(r.mb, [g EXCEPT !.sets = Tail(@)])
        Visit(offset, setid, setlen) ==
            IF setid = 2 \/ setid = 3
            THEN Learned(DecodeTemplates(mb, offset + SetHdrSize, offset + setlen,
                                         setid, <<>>))
            ELSE IF setid < 256 THEN Raised("TypeError", mb)
            ELSE IF <<mb.odid, setid>> \in mb.accepted_tids /\ TemplateStored(mb, setid)
            THEN RunGenerator(mb, [g EXCEPT !.inset = TRUE,
                                            !.offset = offset + SetHdrSize,
                                            !.setend = offset + setlen,
                                            !.tmpl = TemplateForSet(mb, setid)])
            ELSE RunGenerator(mb, [g EXCEPT !.sets = Tail(@)])
    IN  IF g.inset
        THEN IF g.offset + g.tmpl.minlength <= g.setend
             THEN Yield(DecodeFn("namedict", g.tmpl, mb.mbuf, g.offset, <<>>))
             ELSE RunGenerator(mb, [g EXCEPT !.inset = FALSE, !.sets = Tail(@)])
        ELSE IF g.sets = <<>>
        THEN [exc |-> "", mb |-> mb, gen |-> [g EXCEPT !.state = "done"],
              rec |-> NoRecord, stop |-> TRUE]
        ELSE Visit(Head(g.sets)[1], Head(g.sets)[2], Head(g.sets)[3])

\* next(gen): [exc, mb, gen, rec, stop], stop for StopIteration.  A generator
\* suspended at its yield goes on with the statement after it,
\* self._increment_sequence().
GeneratorNext(mb, g) ==
    IF g.state = "done"
    THEN [exc |-> "", mb |-> mb, gen |-> g, rec |-> NoRecord, stop |-> TRUE]
    ELSE IF g.state = "suspended" THEN RunGenerator(_increment_sequence(mb), g)
    ELSE RunGenerator(mb, g)

\* a message whose template set holds a template record with field count 0
\* for the id of the data set that follows
EmptyTemplateMessage(odid, tid) ==
    MsgHdrBytes(MsgHdrSize + 2 * SetHdrSize + TmplHdrSize + 2, 0, utcnow, odid)
        \o U16(TEMPLATE_SET_ID) \o U16(SetHdrSize + TmplHdrSize)
        \o U16(tid) \o U16(0)
        \o U16(tid) \o U16(SetHdrSize + 2) \o U16(80)

GeneratorMessages ==
    {PeerMessage(1, Tmpl, TRUE, <<RecA, RecB>>), PeerMessage(2, Tmpl2, TRUE, <<RecP, RecQ>>),
     LateTemplateMessage(2, Tmpl2, RecP, RecQ), EmptyTemplateMessage(1, 256)}

\* the records a consumer takes from one iteration
MaxRecords == 3

\* cx.gen is the generator of the consumer (cx.active), cx.got the number of
\* records it has handed over, cx.start the sequence counter of the domain
\* when the iteration began and cx.rec the last record
GeneratorInit ==
    /\ msg = MessageBuffer(MbufSize - 1)
    /\ wire = <<>>
    /\ last = NoCall
    /\ hist = HistInit
    /\ fresh = NoIteration
    /\ it = NoIteration
    /\ cx = [active |-> FALSE, gen |-> NewGenerator(msg), got |-> 0, start |-> 0,
             rec |-> NoRecord]
    /\ InfomodelLoaded

\* msg.from_bytes(w), between iterations
GeneratorFromBytes(w) ==
    LET Received(r) ==
            /\ hist.calls < MaxCalls
            /\ ~cx.active
            /\ msg' = r.mb
            /\ wire' = w
            /\ last' = Called("from_bytes", r.exc)
            /\ hist' = [hist EXCEPT !.calls = @ + 1]
            /\ UNCHANGED <<fresh, it, cx, infomodel>>
    IN  Received(from_bytes(msg, w))

\* gen = msg.namedict_iterator()
GeneratorStart ==
    /\ ~cx.active
    /\ last.op = "from_bytes" /\ last.exc = ""
    /\ cx' = [active |-> TRUE, gen |-> NewGenerator(msg), got |-> 0,
              start |-> SeqCounter(msg, msg.odid), rec |-> NoRecord]
    /\ last' = Called("namedict_iterator", "")
    /\ UNCHANGED <<msg, wire, hist, fresh, it, infomodel>>

\* rec = next(gen)
GeneratorStep ==
    LET Resumed(r) ==
            /\ msg' = r.mb
            /\ cx' = [cx EXCEPT !.gen = r.gen,
                         !.got = IF r.exc = "" /\ ~r.stop THEN @ + 1 ELSE @,
                         !.rec = r.rec]
            /\ last' = Called("next", IF r.stop THEN "StopIteration" ELSE r.exc)
            /\ UNCHANGED <<wire, hist, fresh, it, infomodel>>
    IN  /\ cx.active
        /\ cx.gen.state # "done"
        /\ cx.got < MaxRecords
        /\ Resumed(GeneratorNext(msg, cx.gen))

\* the consumer stops iterating and drops the generator: gen.close() runs
\* nothing of the body after the yield
GeneratorStop ==
    /\ cx.active
    /\ cx' = [cx EXCEPT !.active = FALSE]
    /\ last' = Called("close", "")
    /\ UNCHANGED <<msg, wire, hist, fresh, it, infomodel>>

GeneratorSteps ==
    \/ \E w \in GeneratorMessages : GeneratorFromBytes(w)
    \/ GeneratorStart
    \/ GeneratorStep
    \/ GeneratorStop

SpecGenerator == GeneratorInit /\ [][GeneratorSteps]_vars

(***************************************************************************)
(* Properties of the exporter                                              *)
(***************************************************************************)

\* the value a collector can get back: a dateTimeSeconds has whole seconds
OnTheWire(v) == IF v.k = "datetime" THEN DateTime(v.d[1], 0) ELSE v

RecOnTheWire(rec) == [n \in DOMAIN rec |-> OnTheWire(rec[n])]

\* the message was built by begin_export, add_template with export,
\* export_ensure_set, exports of records and to_bytes, and a new MessageBuffer
\* has read the bytes
FreshlyRead == last.op = "read_fresh" /\ hist.phase = 4

C2_RecordOnlyInOpenSet ==
    (last.op = "export_record" /\ last.exc = "") =>
        /\ msg.cursetid >= 256
        /\ TemplateStored(msg, msg.cursetid)
        /\ TemplateForSet(msg, msg.cursetid) = msg.curtmpl

\* C3: an export_record that returns normally leaves
\* length_before <= length <= mtu; one that raises EndOfMessage leaves the
\* length at exactly length_before.
C3_ExportRecordLength ==
    last.op = "export_record" =>
        /\ last.exc = "" => (last.length <= msg.length /\ msg.length <= msg.mtu)
        /\ last.exc = "EndOfMessage" => msg.length = last.length

\* both ways to EndOfMessage have happened: a value struct refuses with
\* nothing written, and a record that ends beyond the mtu
C3_Witness ==
    /\ last.op = "export_record"
    /\ last.exc = "EndOfMessage"
    /\ msg.length = last.length
    /\ msg.mtu = SmallMtu
    /\ hist.exported[msg.odid] = 1
    /\ msg.mbuf[msg.length] # 0

\* C4: after a successful begin_export the message length never exceeds mtu,
\* and to_bytes never returns more than mtu bytes.
C4_LengthWithinMtu ==
    /\ hist.exporting = "yes" => msg.length <= msg.mtu
    /\ hist.exporting = "sent" => Len(wire) <= msg.mtu

\* C5: the sequence counter of an observation domain is its value in a new
\* MessageBuffer, 0, plus the number of export_record calls that returned
\* normally in that domain, whatever other calls were made in between.
C5_SequenceCountsExports ==
    \A o \in Odids : SeqCounter(msg, o) = hist.exported[o]

C5_Witness ==
    /\ hist.exported[1] = 2
    /\ SeqCounter(msg, 1) = 2
    /\ last.op = "export_record"
    /\ last.exc = "EndOfMessage"

\* the sequence number in the header of a message, as to_bytes packs it
WireSequence(w) == ((w[5] * 256 + w[6]) * 256 + w[7]) * 256 + w[8]

\* C6: the sequence number to_bytes writes into the header is the value the
\* counter of the message's own observation domain had at begin_export.
C6_HeaderSequenceOfOwnDomain ==
    hist.exporting = "sent" => WireSequence(wire) = hist.begin_counter

\* the sets of a message, from a set header at off, chain up to its end
RECURSIVE ChainFrom(_, _)
ChainFrom(w, off) ==
    IF off = Len(w) THEN TRUE
    ELSE IF off + SetHdrSize > Len(w) THEN FALSE
    ELSE LET setlen == w[off + 3] * 256 + w[off + 4]
         IN  /\ setlen >= SetHdrSize
             /\ off + setlen <= Len(w)
             /\ ChainFrom(w, off + setlen)

\* C7: in a message returned by to_bytes the sets form a contiguous chain
\* from offset 16 to the message length, each set length >= 4.
C7_SetsChain ==
    hist.exporting = "sent" => ChainFrom(wire, MsgHdrSize)

\* C20: delete_template(tid) with export=True on a stored template removes
\* (odid, tid) from the template store and, unless the message is full
\* (EndOfMessage), appends the withdrawal record (tid, field count 0) to a
\* set of the template's native set id.
C20_DeleteExportsWithdrawal ==
    (last.op = "delete_template" /\ last.export /\ last.exc # "KeyError") =>
        /\ last.exc \in {"", "EndOfMessage"}
        /\ ~TemplateStored(msg, Tmpl.tid)
        /\ last.exc = "" =>
              /\ msg.cursetid = native_setid(Tmpl)
              /\ msg.length >= last.length + TmplHdrSize
              /\ Slice(msg.mbuf, msg.length - TmplHdrSize, msg.length)
                    = U16(Tmpl.tid) \o U16(0)

(***************************************************************************)
(* Properties of the collector                                             *)
(***************************************************************************)

\* C8: a data set with id s in a message of domain d is decoded only with the
\* template stored under (d, s), whatever is stored under s for other
\* domains, and yields nothing when no template is stored under (d, s).
C8_DecodesWithOwnDomainTemplate ==
    \A i \in 1..Len(it.uses) :
        LET u == it.uses[i]
            key == <<u.odid, u.setid>>
        IN  /\ u.decoded => (key \in DOMAIN u.store /\ u.tmpl = u.store[key])
            /\ key \notin DOMAIN u.store => (~u.decoded /\ u.n = 0)

\* the collector holds a template under (1, 256), reads a message of domain 2,
\* skips its first set 256, for which it has no template of domain 2, learns
\* a different template under (2, 256) and decodes the next set 256 with it
C8_Witness ==
    /\ last.op = "namedict_iterator"
    /\ last.exc = ""
    /\ Len(it.uses) = 2
    /\ it.uses[1].odid = 2
    /\ <<1, 256>> \in DOMAIN it.uses[1].store
    /\ <<2, 256>> \notin DOMAIN it.uses[1].store
    /\ ~it.uses[1].decoded
    /\ it.uses[2].decoded
    /\ it.uses[2].n = 1
    /\ it.uses[2].tmpl # it.uses[2].store[<<1, 256>>]
    /\ it.recs = <<RecP>>

\* C11: every record tuple_iterator(L) yields comes from a data set decoded
\* with a template that contains every IE of L, whatever calls went before,
\* the reuse of the same list object after another iterator changed the
\* accepted templates included (a set whose accepted template lacks an IE of
\* L yields no record: the decoder raises ValueError).
C11_TupleRecordsFromMatchingTemplates ==
    last.op = "tuple_iterator" =>
        \A i \in 1..Len(it.uses) :
            it.uses[i].n > 0 => TmplAccept(it.ielist, it.uses[i].tmpl)

\* the list object of the previous tuple_iterator call is used again on a
\* message of domain 1, after a namedict_iterator accepted a template of
\* domain 2 without the IE of the list, and a record comes out
C11_Witness ==
    /\ last.op = "tuple_iterator"
    /\ it.ielist = ProjStart.ies
    /\ msg.odid = 1
    /\ Len(msg.setlist) = 1
    /\ <<2, 256>> \in msg.accepted_tids
    /\ ~TmplAccept(it.ielist, msg.templates[<<2, 256>>])
    /\ Len(it.uses) = 1
    /\ it.uses[1].n = 1
    /\ it.recs = << <<DateTime(66000, 0)>> >>

\* C12: namedict_iterator decodes every data set of the message whose
\* template is in the store under the message's observation domain, whatever
\* acceptance predicate was in force when the template was learned.
C12_NamedictYieldsEveryStoredSet ==
    last.op = "namedict_iterator" =>
        \A i \in 1..Len(it.uses) :
            <<it.uses[i].odid, it.uses[i].setid>> \in DOMAIN it.uses[i].store
                => it.uses[i].decoded

\* the version and the length in the header of a message
WireVersion(w) == w[1] * 256 + w[2]

WireLength(w) == w[3] * 256 + w[4]

\* the message has a header with version 10 and a length of at least 20, and
\* is as long as the header says
WellFramed(w) ==
    /\ Len(w) >= MsgHdrSize
    /\ WireVersion(w) = 10
    /\ WireLength(w) >= 20
    /\ Len(w) = WireLength(w)

\* C13: from_bytes and read_message raise IpfixDecodeError whenever the
\* version of the header is not 10 or its length is below 20, and raise no
\* IpfixDecodeError for a header with version 10 and a length of at least 20
\* (read_message: when the stream holds the whole message).
C13_HeaderChecked ==
    (last.op \in {"from_bytes", "read_message"} /\ Len(wire) >= MsgHdrSize) =>
        /\ (WireVersion(wire) # 10 \/ WireLength(wire) < 20)
              => last.exc = "IpfixDecodeError"
        /\ (/\ WireVersion(wire) = 10
            /\ WireLength(wire) >= 20
            /\ (last.op = "from_bytes" \/ Len(wire) >= WireLength(wire)))
              => last.exc # "IpfixDecodeError"

\* from_bytes refuses a header of length 17 on a buffer that holds the sets
\* of an earlier message
C13_Witness ==
    /\ last.op = "from_bytes"
    /\ WireVersion(wire) = 10
    /\ WireLength(wire) = 17
    /\ last.exc = "IpfixDecodeError"
    /\ msg.length = 17
    /\ Len(msg.setlist) = 2

\* walking the sets of a well-framed message from off, a set ends beyond the
\* length of the message
RECURSIVE SetOverflows(_, _)
SetOverflows(w, off) ==
    IF off + SetHdrSize > WireLength(w) THEN FALSE
    ELSE IF off + (w[off + 3] * 256 + w[off + 4]) > WireLength(w) THEN TRUE
    ELSE IF w[off + 3] * 256 + w[off + 4] < SetHdrSize THEN FALSE
    ELSE SetOverflows(w, off + (w[off + 3] * 256 + w[off + 4]))

\* walking the sets of a well-framed message from off, a set has a length
\* below that of a set header
RECURSIVE HasShortSet(_, _)
HasShortSet(w, off) ==
    IF off + SetHdrSize > WireLength(w) THEN FALSE
    ELSE IF w[off + 3] * 256 + w[off + 4] < SetHdrSize THEN TRUE
    ELSE IF off + (w[off + 3] * 256 + w[off + 4]) > WireLength(w) THEN FALSE
    ELSE HasShortSet(w, off + (w[off + 3] * 256 + w[off + 4]))

\* C14: from_bytes raises IpfixDecodeError for every message in which a set
\* ends beyond the message length of the header.
C14_SetOverflowIsDecodeError ==
    (last.op = "from_bytes" /\ WellFramed(wire) /\ SetOverflows(wire, MsgHdrSize))
        => last.exc = "IpfixDecodeError"

\* C15: from_bytes raises IpfixDecodeError, and so returns, for every message
\* with a set whose length is below the 4 bytes of a set header, 0 and 1
\* included.
C15_ShortSetIsDecodeError ==
    (last.op = "from_bytes" /\ WellFramed(wire) /\ HasShortSet(wire, MsgHdrSize))
        => last.exc = "IpfixDecodeError"

\* C16: from_bytes raises IpfixDecodeError for a byte array shorter than the
\* message header or than the length its header gives, and the set index it
\* builds holds no set header from beyond the byte array.
C16_ShortInputIsDecodeError ==
    last.op = "from_bytes" =>
        /\ (Len(wire) < MsgHdrSize \/ Len(wire) < WireLength(wire))
              => last.exc = "IpfixDecodeError"
        /\ last.exc \in {"", "IpfixDecodeError"} =>
              \A i \in 1..Len(msg.setlist) :
                  msg.setlist[i][1] + SetHdrSize <= Len(wire)

\* C17: after from_bytes or read_message raised IpfixDecodeError the set
\* index of the buffer is empty.
C17_DecodeErrorEmptiesSetIndex ==
    (last.op \in {"from_bytes", "read_message"} /\ last.exc = "IpfixDecodeError")
        => msg.setlist = <<>>

\* C18: record_iterator skips a set whose id is below 256 and neither 2 nor 3
\* without an error, and yields the records of the sets after it.
C18_ReservedSetSkipped ==
    (/\ last.op = "namedict_iterator"
     /\ wire = ReservedSetMessage
     /\ Len(msg.setlist) = 3)
        => (it.exc = "" /\ it.recs = <<RecOnTheWire(RecA)>>)

\* C19: after record_iterator read a template record with field count 0 for
\* tid in domain d, the template store has no entry (d, tid).
C19_WithdrawalRemovesTemplate ==
    (/\ last.op = "namedict_iterator"
     /\ last.exc = ""
     /\ wire = WithdrawalMessage(1, Tmpl.tid)
     /\ Len(msg.setlist) = 1)
        => <<1, Tmpl.tid>> \notin DOMAIN msg.templates

\* C21: a begin_export that returns leaves the template store, the accepted
\* template ids and the value of every sequence counter as they were, and
\* leaves the length at 16, the current set id at None and the set index
\* empty.
C21_BeginExportFrame ==
    [][(last'.op = "begin_export" /\ last'.exc = "" /\ hist'.calls = hist.calls + 1) =>
          /\ msg'.templates = msg.templates
          /\ msg'.accepted_tids = msg.accepted_tids
          /\ \A k \in DOMAIN msg.sequences \cup DOMAIN msg'.sequences :
                 SeqCounter(msg', k[1]) = SeqCounter(msg, k[1])
          /\ msg'.length = 16
          /\ msg'.cursetid = None
          /\ msg'.setlist = <<>>]_vars

\* begin_export on the buffer that read a message of two sets and decoded
\* its template and its record
C21_Witness ==
    /\ last.op = "begin_export"
    /\ last.exc = ""
    /\ hist.calls = 3
    /\ wire = GoodMessage
    /\ DOMAIN msg.templates # {}
    /\ SeqCounter(msg, 1) = 1
    /\ msg.setlist = <<>>
    /\ msg.length = 16

(***************************************************************************)
(* Properties of the record codec                                          *)
(***************************************************************************)

\* every value of the record is one its type's wire form carries exactly
\* (a datetime of whole seconds for dateTimeSeconds)
WireExact(ielist, vals) ==
    \A i \in 1..Len(ielist) :
        ielist[i].type.name = "dateTimeSeconds" => vals[i].d[2] = 0

\* the record under test in the shape of the last call
CodecRecord ==
    CASE cx.op = "namedict" -> DictOfZip(IENames(cx.made.tmpl), cx.vals)
      [] cx.op = "iedict" -> DictOfZip(IEKeys(cx.made.tmpl), cx.vals)
      [] OTHER -> cx.vals

\* C9: for every template made from an IE list, whatever the position of its
\* variable-length IEs (index 0 included), and every record valid for it,
\* encoding succeeds and decoding the encoded bytes returns the record and
\* the encoder's end offset, in each of the three record shapes.
C9_RoundTripEveryTemplate ==
    (cx.op \in {"ordered", "namedict", "iedict"} /\ WireExact(cx.ielist, cx.vals))
        => /\ cx.made.exc = ""
           /\ cx.enc.exc = ""
           /\ cx.dec.exc = ""
           /\ cx.dec.rec = CodecRecord
           /\ cx.dec.offset = cx.enc.offset

\* C10: decode_tuple_from with a projection P returns a tuple whose j-th
\* value is the value of the IE P[j] in the record.
C10_TupleInProjectionOrder ==
    (cx.op = "tuple" /\ cx.made.exc = "")
        => /\ cx.dec.exc = ""
           /\ Len(cx.dec.rec) = Len(cx.proj)
           /\ LET InOrder(full) ==
                      \A j \in 1..Len(cx.proj) :
                        cx.dec.rec[j] = full.vals[IndexOf(cx.made.tmpl, cx.proj[j]) + 1]
              IN  InOrder(decode_from(cx.made.tmpl, cx.enc.buf, cx.offset, NonePlan))

(***************************************************************************)
(* Properties of the information model                                     *)
(***************************************************************************)

\* C22: whenever e.for_length(n) returns for a registered IE e,
\* e.for_length(n).for_length(e.length) returns too, and returns an IE with
\* the (pen, num), the length and the wire type of e.
C22_ForLengthRoundTrips ==
    (cx.op = "ie.for_length" /\ cx.res.exc = "") =>
        /\ cx.res.back.exc = ""
        /\ IEEq(cx.res.back.ie, cx.arg.x)
        /\ cx.res.back.ie.length = cx.arg.x.length
        /\ cx.res.back.ie.type = cx.arg.x.type

\* the reductions the claim names: a type and a length
NamedReductions ==
    {<<"unsigned16", 1>>, <<"unsigned32", 2>>, <<"unsigned32", 1>>,
     <<"unsigned64", 4>>, <<"unsigned64", 2>>, <<"unsigned64", 1>>,
     <<"signed16", 1>>, <<"signed32", 2>>, <<"signed32", 1>>,
     <<"signed64", 4>>, <<"signed64", 2>>, <<"signed64", 1>>,
     <<"float64", 4>>}

\* C23: for a type of fixed natural length, for_length(n) with n another
\* length returns exactly for the reductions named (unsigned16 to 1,
\* unsigned32 to 2 or 1, unsigned64 to 4, 2 or 1, the signed mirrors and
\* float64 to 4) and raises IpfixTypeError for every other (type, length),
\* the address, boolean and dateTime types among them.
C23_OnlyNamedReductions ==
    (/\ cx.op = "type.for_length"
     /\ ~IsOctetArrayType(cx.arg.x)
     /\ cx.arg.n # 0
     /\ cx.arg.n # cx.arg.x.length) =>
        IF <<cx.arg.x.name, cx.arg.n>> \in NamedReductions
        THEN cx.res.exc = "" /\ cx.res.type.length = cx.arg.n
        ELSE cx.res.exc = "IpfixTypeError"

\* v < 2^(8n), for n up to 4
BelowPower(v, n) ==
    v \div (CASE n = 1 -> 1 [] n = 2 -> 256 [] n = 3 -> 65536 [] OTHER -> 16777216)
        < 256

\* C24: with a template of one unsigned IE reduced to n bytes open for
\* export, export of a value v < 2^(8n) that fits the message returns and
\* adds exactly n bytes, export of a value v >= 2^(8n) raises and leaves the
\* length as it was, and a collector decodes every exported value as v.
C24_ReducedLengthExport ==
    /\ (last.op = "export_record" /\ hist.phase = 3) =>
          IF BelowPower(cx.v, cx.ie.length)
          THEN last.length + cx.ie.length <= msg.mtu =>
                   (last.exc = "" /\ msg.length = last.length + cx.ie.length)
          ELSE last.exc # "" /\ msg.length = last.length
    /\ FreshlyRead =>
          /\ fresh.exc = ""
          /\ Len(fresh.recs) = Len(hist.sent)
          /\ \A i \in 1..Len(fresh.recs) : fresh.recs[i][cx.ie.name] = PyInt(cx.v)

\* octetDeltaCount[2] has carried 65535 twice, and a collector has read it;
\* C24_WitnessRefused is the other case
C24_Witness ==
    /\ FreshlyRead
    /\ cx.ie = IEForLength(IE_octetDeltaCount, 2).ie
    /\ cx.v = 65535
    /\ Len(fresh.recs) = 2
    /\ Len(wire) = 16 + 12 + 4 + 2 + 2

\* octetDeltaCount[2] has refused 65536
C24_WitnessRefused ==
    /\ last.op = "export_record"
    /\ hist.phase = 3
    /\ cx.ie = IEForLength(IE_octetDeltaCount, 2).ie
    /\ cx.v = 65536
    /\ last.exc = "EndOfMessage"

\* C25: through for_spec and for_template_entry calls, a name and a
\* (pen, num) that map to an IE keep mapping to an IE of that name and that
\* (pen, num): no registration replaces an entry of either index.
C25_RegistryEntriesKept ==
    [][/\ \A n \in DOMAIN _ieForName :
            /\ n \in DOMAIN _ieForName'
            /\ _ieForName'[n].name = _ieForName[n].name
            /\ IEEq(_ieForName'[n], _ieForName[n])
       /\ \A k \in DOMAIN _ieForNum :
            /\ k \in DOMAIN _ieForNum'
            /\ _ieForNum'[k].name = _ieForNum[k].name
            /\ IEEq(_ieForNum'[k], _ieForNum[k])]_vars

\* the spec carries a number: the group (pen/num) or (num) has matched
CarriesNumber(spec) == \E i \in 1..Len(spec) : spec[i] = "("

\* C26: for_spec with a (pen, num) that is registered returns the registered
\* IE, with its registered name and type and with the length asked for if
\* the spec gives one, and leaves both indices of the registry as they were,
\* whatever name and type the spec carries.  (Stated for the lengths the
\* registered IE can be specialised to.)
C26_RegisteredNumberReturned ==
    [][(/\ cx'.op = "for_spec"
        /\ parse_spec(cx'.arg).exc = ""
        /\ CarriesNumber(cx'.arg)
        /\ <<parse_spec(cx'.arg).pen, parse_spec(cx'.arg).num>> \in DOMAIN _ieForNum
        /\ IEForLength(_ieForNum[<<parse_spec(cx'.arg).pen, parse_spec(cx'.arg).num>>],
                       parse_spec(cx'.arg).length).exc = "") =>
          LET Returns(p, e) ==
                  /\ cx'.res.exc = ""
                  /\ cx'.res.ie.name = e.name
                  /\ IEEq(cx'.res.ie, e)
                  /\ cx'.res.ie.type.name = e.type.name
                  /\ cx'.res.ie.length = IF p.length # 0 THEN p.length ELSE e.length
                  /\ UNCHANGED infomodel
              Parsed(p) == Returns(p, _ieForNum[<<p.pen, p.num>>])
          IN  Parsed(parse_spec(cx'.arg))]_vars

\* the spec is a bare name that is not registered and carries no type
BareUnregistered(p, ieForName) ==
    /\ p.name # NoName /\ p.pen = 0 /\ p.num = 0 /\ p.typename = ""
    /\ p.name \notin DOMAIN ieForName

\* the spec names a type that for_name does not know
NamesUnknownType(p) == p.typename # "" /\ for_name(p.typename).exc # ""

\* the spec names an IE of the registry: a bare registered name, or a
\* registered (pen, num) with a num that is not 0
NamesRegistered(p, ieForName, ieForNum) ==
    \/ p.name # NoName /\ p.pen = 0 /\ p.num = 0 /\ p.name \in DOMAIN ieForName
    \/ p.num # 0 /\ <<p.pen, p.num>> \in DOMAIN ieForNum

\* C27 as stated: for_spec raises and leaves both indices of the registry
\* as they were for the empty spec, for a bare name that is not registered
\* and carries no type, and for a spec that names an unknown type.
C27_RaisesWithoutRegistering ==
    [][(/\ cx'.op = "for_spec"
        /\ parse_spec(cx'.arg).exc = ""
        /\ \/ cx'.arg = <<>>
           \/ BareUnregistered(parse_spec(cx'.arg), _ieForName)
           \/ NamesUnknownType(parse_spec(cx'.arg))) =>
          (cx'.res.exc # "" /\ UNCHANGED infomodel)]_vars

\* C27 amended: for_spec raises and leaves both indices of the registry as
\* they were for the empty spec, for a bare name that is not registered
\* and carries no type, and for a spec that names an unknown type and does
\* not name an IE of the registry.
C27_RaisesUnlessRegistered ==
    [][(/\ cx'.op = "for_spec"
        /\ parse_spec(cx'.arg).exc = ""
        /\ \/ cx'.arg = <<>>
           \/ BareUnregistered(parse_spec(cx'.arg), _ieForName)
           \/ /\ NamesUnknownType(parse_spec(cx'.arg))
              /\ ~NamesRegistered(parse_spec(cx'.arg), _ieForName, _ieForNum)) =>
          (cx'.res.exc \in {"ValueError", "IpfixTypeError"} /\ UNCHANGED infomodel)]_vars

\* nosuch(35566/2)<nosuchtype> has been refused by a registry that has
\* grown since it was loaded
C27_Witness ==
    /\ cx.op = "for_spec"
    /\ cx.arg = <<"nosuch", "(", "35566", "/", "2", ")", "<", "nosuchtype", ">">>
    /\ cx.res.exc = "IpfixTypeError"
    /\ <<35566, 1>> \in DOMAIN _ieForNum
    /\ <<35566, 2>> \notin DOMAIN _ieForNum

(***************************************************************************)
(* Properties of the varlen and template codecs                            *)
(***************************************************************************)

\* C28: for every length L in 0..65535, encode_varlen writes one byte if
\* L < 255 and three bytes, the first of them 0xFF, otherwise, and
\* decode_varlen of those bytes returns L and the offset just past them.
C28_VarlenRoundTrip ==
    cx.op = "varlen" =>
        LET L == cx.arg.x
            off == cx.arg.n
            written == IF L < 255 THEN 1 ELSE 3
        IN  /\ cx.res.enc.exc = ""
            /\ cx.res.enc.offset = off + written
            /\ L >= 255 => cx.res.enc.buf[off] = 255
            /\ \A i \in DOMAIN CodecBuf :
                   (i < off \/ i >= off + written) => cx.res.enc.buf[i] = CodecBuf[i]
            /\ cx.res.dec.exc = ""
            /\ cx.res.dec.length = L
            /\ cx.res.dec.offset = cx.res.enc.offset

\* the length 255 has gone through three bytes
C28_Witness ==
    /\ cx.op = "varlen"
    /\ cx.arg.x = 255
    /\ cx.res.enc.offset = cx.arg.n + 3
    /\ cx.res.dec.length = 255

\* the (pen, num, length) of the IEs of a template, in order
IESpecsOf(t) == [i \in 1..Len(t.ies) |-> <<t.ies[i].pen, t.ies[i].num, t.ies[i].length>>]

\* C29: for every template, data or options, with or without
\* enterprise-specific IEs, decode_template_from of the bytes that
\* encode_template_to wrote returns a template of the same tid, the same
\* scope count and the same sequence of (pen, num, length), and the offset
\* the encoder returned.
C29_TemplateRoundTrip ==
    cx.op = "template" =>
        /\ cx.res.enc.exc = ""
        /\ cx.res.dec.exc = ""
        /\ cx.res.dec.tmpl.tid = cx.arg.x.tid
        /\ cx.res.dec.tmpl.scopecount = cx.arg.x.scopecount
        /\ IESpecsOf(cx.res.dec.tmpl) = IESpecsOf(cx.arg.x)
        /\ cx.res.dec.offset = cx.res.enc.offset

(***************************************************************************)
(* Properties of the stream writer                                         *)
(***************************************************************************)

\* the stream as a buffer
StreamBuf(stream) == [i \in 0..(Len(stream) - 1) |-> stream[i + 1]]

\* the sets from offset off to the end of the message that starts at offset at:
\* the records of the sets of the template t and the ids of the sets that hold
\* any
RECURSIVE SetsOfMessage(_, _, _, _, _, _)
SetsOfMessage(buf, t, off, msgend, recs, setids) ==
    IF off >= msgend THEN [ok |-> TRUE, recs |-> recs, setids |-> setids]
    ELSE IF off + SetHdrSize > msgend \/ Get16(buf, off + 2) < SetHdrSize
            \/ off + Get16(buf, off + 2) > msgend
    THEN [ok |-> FALSE, recs |-> recs, setids |-> setids]
    ELSE LET setid == Get16(buf, off)
             setend == off + Get16(buf, off + 2)
             Decoded(d) ==
                 IF d.exc # "" THEN [ok |-> FALSE, recs |-> recs, setids |-> setids]
                 ELSE SetsOfMessage(buf, t, setend, msgend, recs \o d.recs,
                                    IF d.recs = <<>> THEN setids
                                    ELSE Append(setids, setid))
         IN  IF setid < 256
             THEN SetsOfMessage(buf, t, setend, msgend, recs, setids)
             ELSE Decoded(DecodeRecords(t, buf, off + SetHdrSize, setend,
                                        "namedict", <<>>, <<>>))

\* the messages of the stream from offset at on: [ok, recs, setids, msgs]
RECURSIVE MessagesOfStream(_, _, _, _, _, _)
MessagesOfStream(buf, t, at, recs, setids, msgs) ==
    IF at = BufLen(buf) THEN [ok |-> TRUE, recs |-> recs, setids |-> setids, msgs |-> msgs]
    ELSE IF at + MsgHdrSize > BufLen(buf) \/ Get16(buf, at) # 10
            \/ Get16(buf, at + 2) < MsgHdrSize \/ at + Get16(buf, at + 2) > BufLen(buf)
    THEN [ok |-> FALSE, recs |-> recs, setids |-> setids, msgs |-> msgs]
    ELSE LET Walked(r) ==
                 IF ~r.ok THEN [ok |-> FALSE, recs |-> r.recs, setids |-> r.setids,
                                msgs |-> msgs]
                 ELSE MessagesOfStream(buf, t, at + Get16(buf, at + 2), r.recs,
                                       r.setids, msgs + 1)
         IN  Walked(SetsOfMessage(buf, t, at + MsgHdrSize, at + Get16(buf, at + 2),
                                  recs, setids))

\* what the stream holds for a collector that knows the template Tmpl
OnTheStream == MessagesOfStream(StreamBuf(wire), Tmpl, 0, <<>>, <<>>, 0)

\* C30: when the export calls of the writer that returned are followed by a
\* flush, the messages on the stream hold each exported record once and in
\* export order, every one in a set of the export template's id; and an export
\* that flushed and retried leaves its record in an open set of that id at
\* the start of the new message.
C30_StreamHoldsEveryRecordOnce ==
    LET Holds(s) ==
            /\ s.ok
            /\ s.recs = [i \in 1..Len(hist.sent) |-> RecOnTheWire(hist.sent[i])]
            /\ \A i \in 1..Len(s.setids) : s.setids[i] = cx.curtid
    IN  /\ (last.op = "flush" /\ last.exc = "") => Holds(OnTheStream)
        /\ (last.op \in {"export_namedict", "export_tuple"} /\ last.exc = ""
                /\ cx.retried) =>
              /\ msg.cursetid = cx.curtid
              /\ msg.cursetoff = MsgHdrSize
              /\ msg.length > msg.cursetoff + SetHdrSize

\* after an export that flushed and retried, a flush: the stream holds two
\* messages and the records of both
C30_Witness ==
    LET Held(s) ==
            /\ s.ok /\ s.msgs >= 2
            /\ s.recs = [i \in 1..Len(hist.sent) |-> RecOnTheWire(hist.sent[i])]
    IN  /\ last.op = "flush" /\ last.exc = ""
        /\ cx.msgcount >= 2
        /\ Len(hist.sent) >= 2
        /\ Held(OnTheStream)

(***************************************************************************)
(* Properties of the NetFlow V9 reader                                     *)
(***************************************************************************)

\* self.sequences.get((odid, streamid), 0) of a PduBuffer
PduCounter(sequences, odid, streamid) ==
    IF <<odid, streamid>> \in DOMAIN sequences THEN sequences[<<odid, streamid>>] ELSE 0

\* C31: when a PduBuffer has iterated over a stream that holds a PDU whose
\* header declares n records, it has yielded the n records and the sequence
\* counter of the PDU's source id has advanced by exactly n.
C31_SequenceAdvancesByRecordCount ==
    (cx.op = "namedict_iterator" /\ IsPdu(wire)) =>
        /\ cx.res.exc = ""
        /\ Len(cx.res.recs) = DeclaredCount(wire)
        /\ PduCounter(cx.pb.sequences, cx.pb.odid, cx.pb.streamid)
              = PduCounter(cx.res.before, cx.pb.odid, cx.pb.streamid)
                    + DeclaredCount(wire)

(***************************************************************************)
(* Properties of templates                                                 *)
(***************************************************************************)

\* the index of the first IE of length VARLEN, None if there is none
FirstVarlen(ies) ==
    IF \A i \in 1..Len(ies) : ies[i].length # VARLEN THEN None
    ELSE (CHOOSE i \in 1..Len(ies) :
             /\ ies[i].length = VARLEN
             /\ \A j \in 1..(i - 1) : ies[j].length # VARLEN) - 1

\* the lengths of the first n IEs, a variable-length one counted as 1
RECURSIVE SumMinLengths(_, _)
SumMinLengths(ies, n) ==
    IF n = 0 THEN 0
    ELSE SumMinLengths(ies, n - 1)
            + (IF ies[n].length = VARLEN THEN 1 ELSE ies[n].length)

\* C32: after any sequence of appends, varlenslice is the index of the first
\* variable-length IE (None without one), and minlength is the sum of the
\* fixed lengths plus one per variable-length IE.
C32_VarlensliceIsFirstVarlen ==
    cx.op = "append" =>
        /\ cx.tmpl.varlenslice = FirstVarlen(cx.tmpl.ies)
        /\ cx.tmpl.minlength = SumMinLengths(cx.tmpl.ies, Len(cx.tmpl.ies))

\* C33: encode_template_to returns, and advances the offset by the enclength
\* of the template.
C33_EncodedLengthIsEnclength ==
    cx.op = "template" =>
        /\ cx.res.enc.exc = ""
        /\ cx.res.enc.offset = cx.arg.n + cx.arg.x.enclength

\* the payload lengths of the variable-length values of a record, summed over
\* the first n IEs, with `extra` added for each payload of 255 bytes or more
RECURSIVE SumPayloads(_, _, _, _)
SumPayloads(t, vals, n, extra) ==
    IF n = 0 THEN 0
    ELSE SumPayloads(t, vals, n - 1, extra)
            + (IF t.ies[n].length # VARLEN THEN 0
               ELSE Len(ValEnc(t.ies[n].type, vals[n]))
                       + (IF Len(ValEnc(t.ies[n].type, vals[n])) >= 255
                          THEN extra ELSE 0))

\* C34 as stated: encode_to writes minlength bytes plus the payloads of the
\* variable-length values, whatever their lengths.
C34_RecordLengthIsMinlengthPlusPayloads ==
    cx.op = "encode_to" =>
        /\ cx.res.exc = ""
        /\ cx.res.offset - cx.offset
              = cx.t.minlength + SumPayloads(cx.t, cx.vals, Len(cx.t.ies), 0)

\* C34, amended: encode_to writes minlength bytes plus the payloads of the
\* variable-length values, plus two more bytes for each payload of 255 bytes
\* or more, whose length prefix takes three bytes and not one.
C34_RecordLengthCountsLongPrefixes ==
    cx.op = "encode_to" =>
        /\ cx.res.exc = ""
        /\ cx.res.offset - cx.offset
              = cx.t.minlength + SumPayloads(cx.t, cx.vals, Len(cx.t.ies), 2)

\* a record with a payload below 255 bytes and one of 255 or more was encoded
C34_Witness ==
    /\ cx.op = "encode_to"
    /\ cx.res.exc = ""
    /\ \E i \in 1..Len(cx.t.ies) :
          cx.t.ies[i].length = VARLEN /\ Len(ValEnc(cx.t.ies[i].type, cx.vals[i])) >= 255
    /\ \E i \in 1..Len(cx.t.ies) :
          cx.t.ies[i].length = VARLEN /\ Len(ValEnc(cx.t.ies[i].type, cx.vals[i])) = 254

(***************************************************************************)
(* Properties of record iteration                                          *)
(***************************************************************************)

\* the data sets of a set index, in wire order
DataSets(setlist) == SelectSeq(setlist, LAMBDA s : s[2] >= 256)

\* the ids of the template records of the set s
RECURSIVE TidsFrom(_, _, _, _)
TidsFrom(buf, offset, setend, setid) ==
    IF offset >= setend THEN {}
    ELSE LET Decoded(d) ==
                 IF d.exc # "" \/ d.offset <= offset THEN {}
                 ELSE {d.tmpl.tid} \cup TidsFrom(buf, d.offset, setend, setid)
         IN  Decoded(decode_template_from(buf, offset, setid))

TidsOfSet(buf, s) == TidsFrom(buf, s[1] + SetHdrSize, s[1] + s[3], s[2])

\* the message in the buffer has a template set for tid, before offset `before`
TemplateSetBefore(mb, tid, before) ==
    \E j \in 1..Len(mb.setlist) :
        /\ mb.setlist[j][2] \in {TEMPLATE_SET_ID, OPTIONS_SET_ID}
        /\ mb.setlist[j][1] < before
        /\ tid \in TidsOfSet(mb.mbuf, mb.setlist[j])

\* the records of a data set as they lie on the wire, first to last
RECURSIVE WireRecords(_, _, _, _)
WireRecords(t, buf, offset, setend) ==
    IF offset + t.minlength > setend THEN <<>>
    ELSE LET Decoded(d) ==
                 IF d.exc # "" \/ d.offset <= offset THEN <<>>
                 ELSE <<d.rec>> \o WireRecords(t, buf, d.offset, setend)
         IN  Decoded(decode_namedict_from(t, buf, offset, <<>>))

\* the records of the data sets that the iteration decoded, set after set
RECURSIVE WireOrder(_, _, _, _)
WireOrder(mb, sets, uses, i) ==
    IF i > Len(uses) THEN <<>>
    ELSE (IF uses[i].decoded
          THEN WireRecords(uses[i].tmpl, mb.mbuf, sets[i][1] + SetHdrSize,
                           sets[i][1] + sets[i][3])
          ELSE <<>>) \o WireOrder(mb, sets, uses, i + 1)

\* the records as the iteration yields them: dicts keyed by IE name, or
\* tuples in the order of it.ielist
AsYielded(recs) ==
    IF last.op = "namedict_iterator" THEN recs
    ELSE [i \in 1..Len(recs) |-> [j \in 1..Len(it.ielist) |-> recs[i][it.ielist[j].name]]]

Iterated == last.op \in {"namedict_iterator", "tuple_iterator"} /\ it.exc = ""

C36_CounterFollowsYieldedRecords ==
    last.op \in {"next", "close"} =>
        SeqCounter(msg, msg.odid) = cx.start + cx.got

\* C38: every record that the iteration yields was decoded with an advance of
\* at least one byte, so that the iteration over a message comes to its end.
C38_EveryRecordAdvances ==
    (last.op = "next" /\ cx.gen.state = "suspended") => cx.gen.offset > cx.gen.at

\* C37: begin_export raises IpfixEncodeError exactly when mtu is smaller than
\* the 16 bytes of the message header; with an mtu of 16 or more it succeeds.
C37_BeginExportFailsBelowHeaderSize ==
    last.op = "begin_export" =>
        (last.exc = "IpfixEncodeError" <=> msg.mtu < MsgHdrSize)

\* C39: an export_ensure_set that raises IpfixEncodeError, for want of a
\* template for the set id, leaves the write state as it was: the current
\* set, its offset and template, and the length.
C39_FailedEnsureSetKeepsCurrentSet ==
    [][(last'.op = "export_ensure_set" /\ last'.exc = "IpfixEncodeError") =>
            /\ msg'.cursetid = msg.cursetid
            /\ msg'.cursetoff = msg.cursetoff
            /\ msg'.curtmpl = msg.curtmpl
            /\ msg'.length = msg.length]_vars

\* the octets that a record of the caller takes in a data set of Tmpl
RecordLength(rec) ==
    Tmpl.minlength + Len(_encode_utf8(rec[Name("testString")].d))

\* C40: export_record raises EndOfMessage only when the encoded record would
\* end beyond the mtu (which is below the size of the buffer): a record with
\* a value outside the domain of its type, such as a time before the epoch
\* for an unsigned32 of seconds, in a message with room for every record of
\* the caller is never answered with EndOfMessage.
C40_EndOfMessageOnlyForLackOfRoom ==
    (last.op = "export_record" /\ last.exc = "EndOfMessage" /\ msg.curtmpl = Tmpl) =>
        \E rec \in Records : last.length + RecordLength(rec) > msg.mtu

====
